---- MODULE Spec2Model ----
(***************************************************************************)
(* A model of the repository cache, the secure git command executor and    *)
(* the cache eviction sweep of lucidity-mcp.                               *)
(*                                                                         *)
(* Python strings are sequences of one-character strings, so that the      *)
(* character tests of the validators and of the identifier parser are      *)
(* computed and not assumed.  A Python value that may fail an isinstance   *)
(* test is a record [isStr, s].                                            *)
(***************************************************************************)
EXTENDS Integers, Sequences, FiniteSets, TLC

VARIABLES
    calls,       \* the ensure_repository calls in flight: call -> position and locals
    process,     \* the process globals: os.environ and config._config
    config,      \* the Config instance returned by get_config()
    cache,       \* the directory tree under the cache root: name -> entry
    clock,       \* time.time(), in seconds
    launched,    \* the processes launched by the most recent operation
    last         \* the most recent operation: its inputs and its outcome

vars == <<calls, process, config, cache, clock, launched, last>>

(***************************************************************************)
(* Bounds of the model.                                                    *)
(***************************************************************************)
MaxArgs == 2          \* longest argument list handed to run_git_command
MaxTicks == 1         \* how many times the clock advances
MaxDays == 1          \* largest `days` value given to the sweep
MaxLines == 3         \* most lines of a diff text

(***************************************************************************)
(* Program constants.                                                      *)
(***************************************************************************)
DEFAULT_CLONE_TIMEOUT_SECONDS == 300
DEFAULT_FETCH_TIMEOUT_SECONDS == 60
CHECKOUT_TIMEOUT_SECONDS == 30
SECONDS_PER_DAY == 24 * 60 * 60

(***************************************************************************)
(* Python string helpers.                                                  *)
(***************************************************************************)
\* str.startswith(prefix)
StartsWith(s, p) ==
    /\ Len(p) <= Len(s)
    /\ SubSeq(s, 1, Len(p)) = p

\* str.endswith(suffix)
EndsWith(s, p) ==
    /\ Len(p) <= Len(s)
    /\ SubSeq(s, Len(s) - Len(p) + 1, Len(s)) = p

\* `sub in s` for strings
Contains(s, sub) ==
    \E i \in 1..(Len(s) - Len(sub) + 1) : SubSeq(s, i, i + Len(sub) - 1) = sub

\* `char in s` for a single character
HasChar(s, c) == \E i \in 1..Len(s) : s[i] = c

\* s[i:] with a 0-based Python index
From(s, i) == SubSeq(s, i + 1, Len(s))

\* s[:i] with a 0-based Python index
Upto(s, i) == SubSeq(s, 1, i)

\* str.find(c, start): the 0-based index of the first c at or after start, else -1
Find(s, c, start) ==
    IF \E i \in (start + 1)..Len(s) : s[i] = c
    THEN (CHOOSE i \in (start + 1)..Len(s) :
              /\ s[i] = c
              /\ \A j \in (start + 1)..(i - 1) : s[j] # c) - 1
    ELSE -1

\* str.rfind(c): the 0-based index of the last c, else -1
RFind(s, c) ==
    IF HasChar(s, c)
    THEN (CHOOSE i \in 1..Len(s) :
              /\ s[i] = c
              /\ \A j \in (i + 1)..Len(s) : s[j] # c) - 1
    ELSE -1

\* str.replace(a, b) for single characters
ReplaceChar(s, a, b) == [i \in 1..Len(s) |-> IF s[i] = a THEN b ELSE s[i]]

\* str.split(c): the list of the pieces between occurrences of c
RECURSIVE Split(_, _)
Split(s, c) ==
    IF ~HasChar(s, c) THEN <<s>>
    ELSE LET i == Find(s, c, 0)
         IN  <<Upto(s, i)>> \o Split(From(s, i + 1), c)

\* str.rstrip("/")
RECURSIVE RStripSlash(_)
RStripSlash(s) ==
    IF Len(s) > 0 /\ s[Len(s)] = "/" THEN RStripSlash(Upto(s, Len(s) - 1)) ELSE s

WhiteSpace == {" ", "\t", "\n", "\r", "\f"}

\* str.strip()
RECURSIVE Strip(_)
Strip(s) ==
    IF Len(s) > 0 /\ s[1] \in WhiteSpace THEN Strip(From(s, 1))
    ELSE IF Len(s) > 0 /\ s[Len(s)] \in WhiteSpace THEN Strip(Upto(s, Len(s) - 1))
    ELSE s

\* a Python str object, and an object that is not a str
PyStr(s) == [isStr |-> TRUE, s |-> s]
PyInt(s) == [isStr |-> FALSE, s |-> s]

\* [PyStr(x) for x in list]
PyStrs(list) == [i \in 1..Len(list) |-> PyStr(list[i])]

(***************************************************************************)
(* validation.py                                                           *)
(***************************************************************************)
\* the backquote character (a TLA+ string cannot hold it)
BackQuote == "backquote"

ShellMetaChars == {";", "&", "|", "$", BackQuote, "\n", "\r"}

Letters == {"a", "b", "c", "d", "e", "f", "g", "h", "i", "j", "k", "l", "m",
            "n", "o", "p", "q", "r", "s", "t", "u", "v", "w", "x", "y", "z",
            "A", "B", "C", "D", "E", "F", "G", "H", "I", "J", "K", "L", "M",
            "N", "O", "P", "Q", "R", "S", "T", "U", "V", "W", "X", "Y", "Z"}

Digits == {"0", "1", "2", "3", "4", "5", "6", "7", "8", "9"}

\* the character class of SAFE_BRANCH_PATTERN
SafeBranchChars == Letters \cup Digits \cup {"/", "_", ".", "-"}

\* re.match of ^[a-zA-Z0-9/_.-]+$ : `$` also matches before one trailing newline
SAFE_BRANCH_PATTERN(s) ==
    LET body == IF Len(s) > 0 /\ s[Len(s)] = "\n" THEN Upto(s, Len(s) - 1) ELSE s
    IN  /\ Len(body) > 0
        /\ \A i \in 1..Len(body) : body[i] \in SafeBranchChars

is_valid_branch_name(branch) ==
    /\ Len(branch) > 0
    /\ ~Contains(branch, <<".", ".">>)
    /\ ~StartsWith(branch, <<".">>)
    /\ ~StartsWith(branch, <<"-">>)
    /\ SAFE_BRANCH_PATTERN(branch)

\* [a-zA-Z0-9~^./_-]
CommitRangeChars == Letters \cup Digits \cup {"~", "^", ".", "/", "_", "-"}

\* COMMIT_RANGE_PATTERN.match(s): ^[a-zA-Z0-9~^./_-]+\.\.[a-zA-Z0-9~^./_-]+$,
\* where $ also matches before one newline that ends the string
COMMIT_RANGE_PATTERN(s) ==
    LET body == IF Len(s) > 0 /\ s[Len(s)] = "\n" THEN Upto(s, Len(s) - 1) ELSE s
    IN  \E k \in 1..(Len(body) - 3) :
            /\ \A i \in 1..k : body[i] \in CommitRangeChars
            /\ body[k + 1] = "." /\ body[k + 2] = "."
            /\ \A i \in (k + 3)..Len(body) : body[i] \in CommitRangeChars

\* the mutant of is_valid_commit_range without the test for a leading '-'
commit_range_with_leading_dash(commits) ==
    /\ Len(commits) > 0
    /\ \A i \in 1..Len(commits) : commits[i] \notin ShellMetaChars
    /\ COMMIT_RANGE_PATTERN(commits)

\* is_valid_commit_range(commits), for a string
is_valid_commit_range(commits) ==
    /\ Len(commits) > 0
    /\ \A i \in 1..Len(commits) : commits[i] \notin ShellMetaChars
    /\ ~StartsWith(commits, <<"-">>)
    /\ COMMIT_RANGE_PATTERN(commits)

\* the mutant of is_valid_path without the test for a leading '-'
path_with_leading_dash(path) ==
    /\ Len(path) > 0
    /\ ~Contains(ReplaceChar(path, "\\", "/"), <<".", ".">>)
    /\ \A i \in 1..Len(path) : path[i] \notin ShellMetaChars

\* is_valid_path(path), for a string
is_valid_path(path) ==
    /\ Len(path) > 0
    /\ ~Contains(ReplaceChar(path, "\\", "/"), <<".", ".">>)
    /\ ~StartsWith(path, <<"-">>)
    /\ \A i \in 1..Len(path) : path[i] \notin ShellMetaChars

\* the mutant of sanitize_git_command_args that forgets the newline characters
sanitize_ok_no_newline(args) ==
    \A i \in 1..Len(args) :
        /\ args[i].isStr
        /\ \A j \in 1..Len(args[i].s) : args[i].s[j] \notin ShellMetaChars \ {"\n", "\r"}

\* sanitize_git_command_args returns (does not raise ValueError)
sanitize_ok(args) ==
    \A i \in 1..Len(args) :
        /\ args[i].isStr
        /\ \A j \in 1..Len(args[i].s) : args[i].s[j] \notin ShellMetaChars

\* the list sanitize_git_command_args returns when it does not raise
sanitize_git_command_args(args) == [i \in 1..Len(args) |-> args[i]]

(***************************************************************************)
(* config.py                                                               *)
(***************************************************************************)
S_cache_dir == <<"/", "c">>

\* Config.from_environment(): the timeouts and the cache root are the defaults,
\* ssh_verify is whatever LUCIDITY_SSH_VERIFY made it
Configs ==
    [cache_dir : {S_cache_dir},
     clone_timeout : {DEFAULT_CLONE_TIMEOUT_SECONDS},
     fetch_timeout : {DEFAULT_FETCH_TIMEOUT_SECONDS},
     ssh_verify : BOOLEAN]

\* str.lower(), for the letters of the alphabet
UpperCase == <<"A", "B", "C", "D", "E", "F", "G", "H", "I", "J", "K", "L", "M",
               "N", "O", "P", "Q", "R", "S", "T", "U", "V", "W", "X", "Y", "Z">>
LowerCase == <<"a", "b", "c", "d", "e", "f", "g", "h", "i", "j", "k", "l", "m",
               "n", "o", "p", "q", "r", "s", "t", "u", "v", "w", "x", "y", "z">>
Lower(s) ==
    [i \in 1..Len(s) |->
        IF \E k \in 1..Len(UpperCase) : UpperCase[k] = s[i]
        THEN LowerCase[CHOOSE k \in 1..Len(UpperCase) : UpperCase[k] = s[i]]
        ELSE s[i]]

S_false == <<"f", "a", "l", "s", "e">>
S_true == <<"t", "r", "u", "e">>
S_yes == <<"y", "e", "s">>

\* os.environ: each LUCIDITY_ variable read here is <<>> when it is not set,
\* else <<value>>
NoEnviron == [LUCIDITY_CACHE_DIR |-> <<>>, LUCIDITY_SSH_VERIFY |-> <<>>]

\* os.environ.get(name, default)
EnvironGet(value, default) == IF value = <<>> THEN default ELSE value[1]

\* the mutant of Config.from_environment whose default leaves host-key
\* verification switched on
from_environment_verifying(environ) ==
    [cache_dir |-> EnvironGet(environ.LUCIDITY_CACHE_DIR, S_cache_dir),
     clone_timeout |-> DEFAULT_CLONE_TIMEOUT_SECONDS,
     fetch_timeout |-> DEFAULT_FETCH_TIMEOUT_SECONDS,
     ssh_verify |-> Lower(EnvironGet(environ.LUCIDITY_SSH_VERIFY, S_true))
                        \in {S_true, <<"1">>, S_yes}]

\* Config.from_environment(), the timeouts being left at their defaults
from_environment(environ) ==
    [cache_dir |-> EnvironGet(environ.LUCIDITY_CACHE_DIR, S_cache_dir),
     clone_timeout |-> DEFAULT_CLONE_TIMEOUT_SECONDS,
     fetch_timeout |-> DEFAULT_FETCH_TIMEOUT_SECONDS,
     ssh_verify |-> Lower(EnvironGet(environ.LUCIDITY_SSH_VERIFY, S_false))
                        \in {S_true, <<"1">>, S_yes}]

\* get_config(): the instance it returns and the globals it leaves
get_config(proc) ==
    IF proc.global_config = <<>>
    THEN LET created == from_environment(proc.environ)
         IN  [config |-> created, process |-> [proc EXCEPT !.global_config = <<created>>]]
    ELSE [config |-> proc.global_config[1], process |-> proc]

\* get_cache_directory()
get_cache_directory(proc) ==
    LET got == get_config(proc)
    IN  [returned |-> got.config.cache_dir, process |-> got.process]

\* the globals of a process in which get_config() has returned cfg
Loaded(cfg) ==
    [environ |-> [NoEnviron EXCEPT !.LUCIDITY_SSH_VERIFY =
                      IF cfg.ssh_verify THEN <<S_true>> ELSE <<>>],
     global_config |-> <<cfg>>]

(***************************************************************************)
(* git_command.py                                                          *)
(***************************************************************************)
S_git == <<"g", "i", "t">>

\* what subprocess.run does with a launched command
ProcessOutcomes == {"exit0", "nonzero", "timeout", "error"}

\* the value run_git_command gives GIT_SSH_COMMAND when ssh_verify is off
SSH_NO_HOST_KEY_CHECK == "ssh -o StrictHostKeyChecking=no -o UserKnownHostsFile=/dev/null"

\* an environment is a dictionary from variable names to values; env_overrides
\* is <<>> for None and <<d>> for the dictionary d
\* dict.update: the entries of other replace and extend those of d
DictUpdate(d, other) == other @@ d

\* the mutant of the environment set-up in which env_overrides is applied
\* after the SSH setting and so wins over it
ChildEnvironmentOverridesLast(cfg, environ, env_overrides) ==
    LET env == IF ~cfg.ssh_verify
               THEN ("GIT_SSH_COMMAND" :> SSH_NO_HOST_KEY_CHECK) @@ environ
               ELSE environ
    IN  IF env_overrides # <<>> /\ DOMAIN env_overrides[1] # {}
        THEN DictUpdate(env, env_overrides[1])
        ELSE env

\* "Set up environment" and "Configure SSH behavior based on settings": the
\* environment run_git_command hands to the child process
ChildEnvironment(cfg, environ, env_overrides) ==
    LET env == IF env_overrides # <<>> /\ DOMAIN env_overrides[1] # {}
               THEN DictUpdate(environ, env_overrides[1])
               ELSE environ
    IN  IF ~cfg.ssh_verify
        THEN ("GIT_SSH_COMMAND" :> SSH_NO_HOST_KEY_CHECK) @@ env
        ELSE env

\* the value GIT_SSH_COMMAND has in the environment of the child of a process
\* that has inherited a value for it
ChildSshCommand(cfg, env_overrides) ==
    ChildEnvironment(cfg, ("GIT_SSH_COMMAND" :> "inherited"), env_overrides)["GIT_SSH_COMMAND"]

\* what the completed process reports for an outcome that is an exit
ReturnCode(outcome) == IF outcome = "exit0" THEN 0 ELSE 1
Stderr(outcome) == IF outcome = "exit0" THEN <<>> ELSE <<"e", "r", "r">>

\* the attributes of the exception raised, or the CompletedProcess returned
Carried(command, effective, check, outcome) ==
    CASE outcome = "timeout" -> [command |-> command, timeout |-> effective]
      [] outcome = "error" -> [command |-> <<>>]
      [] outcome = "nonzero" /\ check ->
            [command |-> command, stderr |-> Stderr(outcome),
             returncode |-> ReturnCode(outcome)]
      [] OTHER -> [args |-> command, stderr |-> Stderr(outcome),
                   returncode |-> ReturnCode(outcome)]

\* the mutant of run_git_command that raises on a nonzero exit whatever
\* `check` says
run_git_command_always_checking(cfg, args, cwd, timeout, check, env_overrides, outcome) ==
    LET effective == IF timeout = <<>> THEN cfg.fetch_timeout ELSE timeout[1]
    IN  IF ~sanitize_ok(args)
        THEN [raised |-> "ValueError", procs |-> <<>>, carried |-> [command |-> <<>>]]
        ELSE LET command == <<PyStr(S_git)>> \o sanitize_git_command_args(args)
                 proc == [argv |-> command,
                          cwd |-> cwd,
                          timeout |-> effective,
                          ssh |-> ChildSshCommand(cfg, env_overrides),
                          outcome |-> outcome]
             IN  [raised |-> CASE outcome = "timeout" -> "GitTimeoutError"
                               [] outcome = "error" -> "Exception"
                               [] outcome = "nonzero" -> "GitCommandError"
                               [] OTHER -> "none",
                  procs |-> <<proc>>,
                  carried |-> Carried(command, effective, TRUE, outcome)]

\* run_git_command(args, cwd, timeout, check, env_overrides) when subprocess.run
\* ends with `outcome`.  timeout is <<>> for None.  The result names the
\* exception raised ("none" when the call returns), the processes launched
\* and what the exception or the returned result carries.
run_git_command(cfg, args, cwd, timeout, check, env_overrides, outcome) ==
    LET effective == IF timeout = <<>> THEN cfg.fetch_timeout ELSE timeout[1]
    IN  IF ~sanitize_ok(args)
        THEN [raised |-> "ValueError", procs |-> <<>>, carried |-> [command |-> <<>>]]
        ELSE LET command == <<PyStr(S_git)>> \o sanitize_git_command_args(args)
                 proc == [argv |-> command,
                          cwd |-> cwd,
                          timeout |-> effective,
                          ssh |-> ChildSshCommand(cfg, env_overrides),
                          outcome |-> outcome]
             IN  [raised |-> CASE outcome = "timeout" -> "GitTimeoutError"
                               [] outcome = "error" -> "Exception"
                               [] outcome = "nonzero" /\ check -> "GitCommandError"
                               [] OTHER -> "none",
                  procs |-> <<proc>>,
                  carried |-> Carried(command, effective, check, outcome)]

(***************************************************************************)
(* tools/git_utils.py: the identifier resolver                             *)
(***************************************************************************)
S_git_at == <<"g", "i", "t", "@">>
S_http == <<"h", "t", "t", "p", ":", "/", "/">>
S_https == <<"h", "t", "t", "p", "s", ":", "/", "/">>
S_github_com == <<"g", "i", "t", "h", "u", "b", ".", "c", "o", "m">>
S_dot_git == <<".", "g", "i", "t">>

\* the mutant of _extract_repo_name that keeps a trailing ".git"
repo_name_keeps_suffix(url) ==
    LET parts == Split(ReplaceChar(RStripSlash(url), ":", "/"), "/")
    IN  parts[Len(parts)]

\* _extract_repo_name(url)
extract_repo_name(url) ==
    LET stripped == RStripSlash(url)
        base == IF EndsWith(stripped, S_dot_git)
                THEN Upto(stripped, Len(stripped) - 4)
                ELSE stripped
        parts == Split(ReplaceChar(base, ":", "/"), "/")
    IN  parts[Len(parts)]

\* the value None of extract_repo_info_from_path
NoRepoInfo == [found |-> FALSE, url |-> <<>>, name |-> <<>>, branch |-> <<>>]

\* a result dictionary; branch is <<>> when the key is absent
RepoInfo(url, name, branch) ==
    [found |-> TRUE, url |-> url, name |-> name, branch |-> branch]

\* the mutant of the branch detection that takes what follows the '@'
\* as the branch without validating it
SplitBranchUnchecked(stripped) ==
    LET at == IF StartsWith(stripped, S_git_at) THEN Find(stripped, "@", 4)
              ELSE RFind(stripped, "@")
    IN  IF at = -1 THEN [root |-> stripped, branch |-> <<>>]
        ELSE [root |-> Upto(stripped, at), branch |-> From(stripped, at + 1)]

\* the first part of extract_repo_info_from_path: the pair (workspace_root,
\* branch) left after the branch specification has been looked for
SplitBranch(stripped) ==
    LET lastAt == RFind(stripped, "@")
        head == Upto(stripped, lastAt)
        tail == From(stripped, lastAt + 1)
        rsplit == IF is_valid_branch_name(tail)
                  THEN [root |-> head, branch |-> tail]
                  ELSE [root |-> stripped, branch |-> <<>>]
        whole == [root |-> stripped, branch |-> <<>>]
    IN  IF StartsWith(stripped, S_git_at)
        THEN LET second_at == Find(stripped, "@", 4)
                 branch == From(stripped, second_at + 1)
             IN  IF second_at = -1 THEN whole
                 ELSE IF is_valid_branch_name(branch)
                      THEN [root |-> Upto(stripped, second_at), branch |-> branch]
                      ELSE [root |-> Upto(stripped, second_at) \o <<"@">> \o branch,
                            branch |-> <<>>]
        ELSE IF /\ HasChar(stripped, "@")
                /\ ~StartsWith(stripped, S_http)
                /\ ~StartsWith(stripped, S_https)
             THEN rsplit
        ELSE IF StartsWith(stripped, S_https) \/ StartsWith(stripped, S_http)
             THEN IF HasChar(stripped, "@") THEN rsplit ELSE whole
        ELSE whole

\* "git@github.com:{username}/{repo}.git"
GithubSshUrl(username, repo) ==
    S_git_at \o S_github_com \o <<":">> \o username \o <<"/">> \o repo \o S_dot_git

\* the mutant of the resolver that parses a path that exists as well
extract_repo_info_of_any_path(workspace_root, exists) ==
    IF workspace_root = <<>> THEN NoRepoInfo
    ELSE LET sb == SplitBranch(Strip(workspace_root))
             root == sb.root
             parts == Split(root, "/")
         IN  IF StartsWith(root, S_git_at)
             THEN RepoInfo(root, extract_repo_name(root), sb.branch)
             ELSE IF StartsWith(root, S_https) \/ StartsWith(root, S_http)
             THEN RepoInfo(root, extract_repo_name(root), sb.branch)
             ELSE IF HasChar(root, "/") /\ ~StartsWith(root, <<"/">>)
             THEN IF Len(parts) >= 3 /\ parts[1] = S_github_com
                  THEN RepoInfo(GithubSshUrl(parts[2], parts[3]),
                                extract_repo_name(parts[3]), sb.branch)
                  ELSE IF Len(parts) = 2 /\ ~StartsWith(parts[1], <<".">>)
                  THEN RepoInfo(GithubSshUrl(parts[1], parts[2]),
                                extract_repo_name(parts[2]), sb.branch)
                  ELSE NoRepoInfo
             ELSE NoRepoInfo

\* extract_repo_info_from_path(workspace_root); exists is os.path.exists of it
extract_repo_info_from_path(workspace_root, exists) ==
    IF workspace_root = <<>> \/ exists THEN NoRepoInfo
    ELSE LET sb == SplitBranch(Strip(workspace_root))
             root == sb.root
             parts == Split(root, "/")
         IN  IF StartsWith(root, S_git_at)
             THEN RepoInfo(root, extract_repo_name(root), sb.branch)
             ELSE IF StartsWith(root, S_https) \/ StartsWith(root, S_http)
             THEN RepoInfo(root, extract_repo_name(root), sb.branch)
             ELSE IF HasChar(root, "/") /\ ~StartsWith(root, <<"/">>)
             THEN IF Len(parts) >= 3 /\ parts[1] = S_github_com
                  THEN RepoInfo(GithubSshUrl(parts[2], parts[3]),
                                extract_repo_name(parts[3]), sb.branch)
                  ELSE IF Len(parts) = 2 /\ ~StartsWith(parts[1], <<".">>)
                  THEN RepoInfo(GithubSshUrl(parts[1], parts[2]),
                                extract_repo_name(parts[2]), sb.branch)
                  ELSE NoRepoInfo
             ELSE NoRepoInfo

(***************************************************************************)
(* The file system.                                                        *)
(*                                                                         *)
(* cache maps each name under the cache root to an entry: nothing, a plain *)
(* file, or a directory that may hold a .git directory (then origin is the *)
(* URL it was cloned from) and a .last_accessed file (sentinel = <<mtime>>,*)
(* <<>> when the file is absent).  mtime is the modification time of the   *)
(* directory itself.  Paths outside the cache root never change.           *)
(***************************************************************************)
N_r == <<"r">>
N_q == <<"q">>
CacheNames == {N_r, N_q}

Absent == [kind |-> "absent", git |-> FALSE, origin |-> <<>>, sentinel |-> <<>>, mtime |-> 0]
PlainFile == [kind |-> "file", git |-> FALSE, origin |-> <<>>, sentinel |-> <<>>, mtime |-> 0]
PlainDir == [kind |-> "dir", git |-> FALSE, origin |-> <<>>, sentinel |-> <<>>, mtime |-> 0]

\* a checkout of url whose directory was last modified at time t
Checkout(url, t) ==
    [kind |-> "dir", git |-> TRUE, origin |-> url, sentinel |-> <<>>, mtime |-> t]

\* os.path.join(a, b)
Join(a, b) ==
    IF StartsWith(b, <<"/">>) THEN b
    ELSE IF a = <<>> \/ EndsWith(a, <<"/">>) THEN a \o b
    ELSE a \o <<"/">> \o b

\* os.path.dirname(path) or "."
DirnameOrDot(path) ==
    LET i == RFind(path, "/")
        head == Upto(path, i + 1)
        trimmed == IF \A j \in 1..Len(head) : head[j] = "/" THEN head ELSE RStripSlash(head)
    IN  IF trimmed = <<>> THEN <<".">> ELSE trimmed

\* paths outside the cache root: a checkout, a directory without .git, and a
\* directory without .git whose relative path looks like owner/repo
P_w == <<"/", "w">>
P_d == <<"/", "d">>
P_o_d == <<"o", "/", "d">>
P_o_q == <<"o", "/", "q">>

\* what a path names: "absent", "file", "dir" (no .git inside) or "repo"
PathKind(fs, cfg, path) ==
    LET entryKind(e) == IF e.kind = "dir" /\ e.git THEN "repo" ELSE e.kind
    IN  IF \E n \in CacheNames : path = Join(cfg.cache_dir, n)
        THEN entryKind(fs[CHOOSE n \in CacheNames : path = Join(cfg.cache_dir, n)])
        ELSE IF path = P_w THEN "repo"
        ELSE IF path \in {P_d, P_o_d, P_o_q, cfg.cache_dir} THEN "dir"
        ELSE "absent"

\* is_git_repository(path)
is_git_repository(fs, cfg, path) == PathKind(fs, cfg, path) = "repo"

\* os.path.exists(path)
path_exists(fs, cfg, path) == PathKind(fs, cfg, path) # "absent"

\* get_clone_directory(repo_name)
get_clone_directory(cfg, repo_name) == Join(cfg.cache_dir, repo_name)

\* the mutant of touch_repository_access that creates .last_accessed and
\* leaves the time of an existing one alone
touch_creates_only(fs, name, now) ==
    IF fs[name].kind # "dir" \/ fs[name].sentinel # <<>> THEN fs
    ELSE [fs EXCEPT ![name].sentinel = <<now>>, ![name].mtime = now]

\* touch_repository_access(repo_path): Path.touch() creates .last_accessed or
\* sets its mtime; creating it modifies the directory
touch_repository_access(fs, name, now) ==
    IF fs[name].kind # "dir" THEN fs
    ELSE IF fs[name].sentinel = <<>>
         THEN [fs EXCEPT ![name].sentinel = <<now>>, ![name].mtime = now]
         ELSE [fs EXCEPT ![name].sentinel = <<now>>]

\* shutil.rmtree(path) raises when path is not a directory
rmtree_raises(fs, name) == fs[name].kind # "dir"

\* shutil.rmtree(path) on a directory
rmtree(fs, name) == [fs EXCEPT ![name] = Absent]

(***************************************************************************)
(* tools/git_utils.py: the repository cache manager                        *)
(*                                                                         *)
(* Each operator computes a whole call.  Its result is a record: fs, the   *)
(* file system left behind; procs, the processes launched, in order;       *)
(* effects, the changes made under the cache root, in order; and what the  *)
(* call returned or raised.  `out` gives the outcome of each git command   *)
(* the call may launch, and what a failed clone leaves at the clone path.  *)
(***************************************************************************)
S_fetch == <<"f", "e", "t", "c", "h">>
S_all == <<"-", "-", "a", "l", "l">>
S_checkout == <<"c", "h", "e", "c", "k", "o", "u", "t">>
S_pull == <<"p", "u", "l", "l">>
S_clone == <<"c", "l", "o", "n", "e">>
S_branch == <<"-", "-", "b", "r", "a", "n", "c", "h">>

PartialClones == {"nothing", "dir", "gitdir"}

CloneOutcomes ==
    [fetch : ProcessOutcomes, checkout : ProcessOutcomes, pull : ProcessOutcomes,
     clone : ProcessOutcomes, partial : PartialClones]

Failures == ProcessOutcomes \ {"exit0"}

\* the ways the three commands of an update can end; the outcome of a command
\* that follows a failed one is never read and is fixed
UpdateOutcomes(hasBranch) ==
    [fetch : {"exit0"}, checkout : {"exit0"}, pull : ProcessOutcomes]
    \cup [fetch : Failures, checkout : {"exit0"}, pull : {"exit0"}]
    \cup (IF hasBranch
          THEN [fetch : {"exit0"}, checkout : Failures, pull : {"exit0"}]
          ELSE {})

\* the ways a clone can end; a successful clone leaves nothing partial
CloneRuns ==
    [clone : {"exit0"}, partial : {"nothing"}]
    \cup [clone : Failures, partial : PartialClones]

Outcome(u, c) ==
    [fetch |-> u.fetch, checkout |-> u.checkout, pull |-> u.pull,
     clone |-> c.clone, partial |-> c.partial]

UpdateSucceeds == [fetch |-> "exit0", checkout |-> "exit0", pull |-> "exit0"]
CloneSucceeds == [clone |-> "exit0", partial |-> "nothing"]

\* the outcomes to draw for a call: those of the commands the call can launch
OutcomesFor(remote, valid, hasBranch) ==
    IF ~remote THEN {Outcome(UpdateSucceeds, CloneSucceeds)}
    ELSE IF ~valid THEN {Outcome(UpdateSucceeds, c) : c \in CloneRuns}
    ELSE {Outcome(UpdateSucceeds, CloneSucceeds)}
         \cup {Outcome(u, c) : u \in UpdateOutcomes(hasBranch) \ {UpdateSucceeds},
                               c \in CloneRuns}

Effect(op, name) == [op |-> op, name |-> name]

\* the mutant of update_repository's try block that goes on after a failed
\* fetch
UpdateStepsPastFetch(fs, name, now, fetch, checkout, pull) ==
    LET failed(procs) == [ok |-> FALSE, fs |-> fs, procs |-> procs, effects |-> <<>>]
    IN  IF checkout.raised # "none" THEN failed(fetch.procs \o checkout.procs)
        ELSE IF pull.raised # "none" THEN failed(fetch.procs \o checkout.procs \o pull.procs)
        ELSE [ok |-> TRUE,
              fs |-> touch_repository_access(fs, name, now),
              procs |-> fetch.procs \o checkout.procs \o pull.procs,
              effects |-> <<Effect("touch", name)>>]

\* the try block of update_repository, given the results of its commands (a
\* result is computed only when the command is reached)
UpdateSteps(fs, name, now, fetch, checkout, pull) ==
    LET failed(procs) == [ok |-> FALSE, fs |-> fs, procs |-> procs, effects |-> <<>>]
    IN  IF fetch.raised # "none" THEN failed(fetch.procs)
        ELSE IF checkout.raised # "none" THEN failed(fetch.procs \o checkout.procs)
        ELSE IF pull.raised # "none" THEN failed(fetch.procs \o checkout.procs \o pull.procs)
        ELSE [ok |-> TRUE,
              fs |-> touch_repository_access(fs, name, now),
              procs |-> fetch.procs \o checkout.procs \o pull.procs,
              effects |-> <<Effect("touch", name)>>]

\* update_repository(repo_path, branch) for the cache entry `name`
update_repository(fs, cfg, name, branch, out, now) ==
    LET repo_path == get_clone_directory(cfg, name)
    IN  IF branch # <<>> /\ ~is_valid_branch_name(branch)
        THEN [ok |-> FALSE, fs |-> fs, procs |-> <<>>, effects |-> <<>>]
        ELSE IF ~is_git_repository(fs, cfg, repo_path)
        THEN [ok |-> FALSE, fs |-> fs, procs |-> <<>>, effects |-> <<>>]
        ELSE UpdateSteps(fs, name, now,
                 run_git_command(cfg, PyStrs(<<S_fetch, S_all>>), repo_path,
                                 <<cfg.fetch_timeout>>, TRUE, <<>>, out.fetch),
                 IF branch = <<>> THEN [raised |-> "none", procs |-> <<>>]
                 ELSE run_git_command(cfg, PyStrs(<<S_checkout, branch>>), repo_path,
                                      <<CHECKOUT_TIMEOUT_SECONDS>>, TRUE, <<>>, out.checkout),
                 run_git_command(cfg, PyStrs(<<S_pull>>), repo_path,
                                 <<cfg.fetch_timeout>>, TRUE, <<>>, out.pull))

\* what the git clone process does to the clone path
CloneProcess(fs, name, url, outcome, partial, now) ==
    IF fs[name].kind = "file" THEN fs
    ELSE IF outcome = "exit0" \/ partial = "gitdir"
         THEN [fs EXCEPT ![name] = Checkout(url, now)]
    ELSE IF partial = "dir" THEN [fs EXCEPT ![name] = PlainDir]
    ELSE fs

\* git cannot clone onto a plain file
CloneFeasible(fs, name, out) == fs[name].kind = "file" => out.clone # "exit0"

\* the except clauses of clone_repository: remove what is at the clone path
FailedClone(fs, cfg, name) ==
    IF ~path_exists(fs, cfg, get_clone_directory(cfg, name))
    THEN [fs |-> fs, effects |-> <<>>, returned |-> <<>>, raised |-> "none"]
    ELSE IF rmtree_raises(fs, name)
    THEN [fs |-> fs, effects |-> <<>>, returned |-> <<>>, raised |-> "NotADirectoryError"]
    ELSE [fs |-> rmtree(fs, name), effects |-> <<Effect("rmtree", name)>>,
          returned |-> <<>>, raised |-> "none"]

\* the mutant of clone_repository's update branch that keeps the entry and
\* returns it although the update failed
StaleOnUpdateFailure(fs, name, upd) ==
    [fs |-> upd.fs, procs |-> upd.procs, effects |-> upd.effects, done |-> TRUE]

\* the mutant of clone_repository's update branch that removes and clones
\* again although the update succeeded
RecloneAlways(fs, name, upd) ==
    [fs |-> rmtree(fs, name), procs |-> upd.procs,
     effects |-> <<Effect("rmtree", name)>>, done |-> FALSE]

\* the update branch of clone_repository's try block, entered for a valid
\* entry: return when the update succeeds, else remove the entry and go on
UpdateOrRemove(fs, name, upd) ==
    IF upd.ok
    THEN [fs |-> upd.fs, procs |-> upd.procs, effects |-> upd.effects, done |-> TRUE]
    ELSE [fs |-> rmtree(fs, name), procs |-> upd.procs,
          effects |-> <<Effect("rmtree", name)>>, done |-> FALSE]

\* the end of clone_repository, given the result of the clone command, the
\* file system the clone process left and what the except clause did
CloneEnd(cfg, name, now, first, run, after, cleanup) ==
    IF run.raised = "none"
    THEN [fs |-> touch_repository_access(after, name, now),
          procs |-> first.procs \o run.procs,
          effects |-> first.effects \o <<Effect("clone", name), Effect("touch", name)>>,
          returned |-> <<get_clone_directory(cfg, name)>>, raised |-> "none"]
    ELSE [fs |-> cleanup.fs,
          procs |-> first.procs \o run.procs,
          effects |-> first.effects
                      \o (IF after # first.fs THEN <<Effect("clone", name)>> ELSE <<>>)
                      \o cleanup.effects,
          returned |-> cleanup.returned, raised |-> cleanup.raised]

\* clone_repository after the clone process: `after` is the file system it left
CloneAfterProcess(cfg, name, now, first, run, after) ==
    CloneEnd(cfg, name, now, first, run, after, FailedClone(after, cfg, name))

\* the clone command of clone_repository; a process runs only if one was launched
CloneRun(cfg, repo_url, name, out, now, first, run) ==
    CloneAfterProcess(cfg, name, now, first, run,
        IF run.procs = <<>> THEN first.fs
        ELSE CloneProcess(first.fs, name, repo_url, out.clone, out.partial, now))

\* clone_repository after its update branch: `first` is what that branch did
CloneAfterUpdate(cfg, repo_url, name, branch, out, now, first, clone_path) ==
    IF first.done
    THEN [fs |-> first.fs, procs |-> first.procs, effects |-> first.effects,
          returned |-> <<clone_path>>, raised |-> "none"]
    ELSE CloneRun(cfg, repo_url, name, out, now, first,
             run_git_command(cfg,
                 PyStrs(<<S_clone, repo_url, clone_path>>
                        \o (IF branch = <<>> THEN <<>> ELSE <<S_branch, branch>>)),
                 DirnameOrDot(clone_path), <<cfg.clone_timeout>>, TRUE, <<>>, out.clone))

\* clone_repository(repo_url, repo_name, branch)
clone_repository(fs, cfg, repo_url, repo_name, branch, out, now) ==
    IF branch # <<>> /\ ~is_valid_branch_name(branch)
    THEN [fs |-> fs, procs |-> <<>>, effects |-> <<>>, returned |-> <<>>, raised |-> "none"]
    ELSE CloneAfterUpdate(cfg, repo_url, repo_name, branch, out, now,
             IF is_git_repository(fs, cfg, get_clone_directory(cfg, repo_name))
             THEN UpdateOrRemove(fs, repo_name,
                                 update_repository(fs, cfg, repo_name, branch, out, now))
             ELSE [fs |-> fs, procs |-> <<>>, effects |-> <<>>, done |-> FALSE],
             get_clone_directory(cfg, repo_name))

\* ensure_repository after the local check, given the resolver's result
EnsureRemote(fs, cfg, info, out, now) ==
    IF info.found
    THEN clone_repository(fs, cfg, info.url, info.name, info.branch, out, now)
    ELSE [fs |-> fs, procs |-> <<>>, effects |-> <<>>, returned |-> <<>>, raised |-> "none"]

\* the mutant of ensure_repository without the check for a local checkout
ensure_without_local_check(fs, cfg, workspace_root, out, now) ==
    EnsureRemote(fs, cfg,
        extract_repo_info_from_path(workspace_root, path_exists(fs, cfg, workspace_root)),
        out, now)

\* ensure_repository(workspace_root)
ensure_repository(fs, cfg, workspace_root, out, now) ==
    IF is_git_repository(fs, cfg, workspace_root)
    THEN [fs |-> fs, procs |-> <<>>, effects |-> <<>>,
          returned |-> <<workspace_root>>, raised |-> "none"]
    ELSE EnsureRemote(fs, cfg,
             extract_repo_info_from_path(workspace_root,
                                         path_exists(fs, cfg, workspace_root)),
             out, now)

(***************************************************************************)
(* The executor on its own: run_git_command on argument lists that may     *)
(* hold shell metacharacters and objects that are not strings.             *)
(***************************************************************************)
ArgStrings ==
    {<<"d">>, <<"-", "s">>, <<"a", " ", "b">>, <<>>,
     <<"a", ";">>, <<"&", "a">>, <<"|">>, <<"$", "x">>, <<BackQuote>>,
     <<"a", "\n">>, <<"\r", "a">>}

ArgValues == {PyStr(a) : a \in ArgStrings} \cup {PyInt(<<"7">>)}

ArgLists == UNION {[1..n -> ArgValues] : n \in 0..MaxArgs}

NoOperation == [op |-> "none"]

\* a call of run_git_command that has not run yet
PendingCalls ==
    [op : {"call"}, args : ArgLists, check : BOOLEAN,
     timeout : {<<>>, <<CHECKOUT_TIMEOUT_SECONDS>>}]

InitCmd ==
    /\ calls = <<>>
    /\ config \in Configs
    /\ process = Loaded(config)
    /\ cache = [n \in CacheNames |-> Absent]
    /\ clock = 0
    /\ launched = <<>>
    /\ last \in PendingCalls

RunGitCommand ==
    /\ last.op = "call"
    /\ \E outcome \in ProcessOutcomes :
        LET r == run_git_command(config, last.args, S_cache_dir, last.timeout,
                                 last.check, <<>>, outcome)
        IN  /\ launched' = r.procs
            /\ last' = [op |-> "run_git_command", args |-> last.args,
                        check |-> last.check, timeout |-> last.timeout,
                        raised |-> r.raised, carried |-> r.carried]
    /\ UNCHANGED <<process, calls, config, cache, clock>>

NextCmd == RunGitCommand

SpecCmd == InitCmd /\ [][NextCmd]_vars

(***************************************************************************)
(* The cache manager: ensure_repository calls, one after the other, on a   *)
(* cache root that may already hold checkouts, plain files and directories *)
(* that are no checkouts.                                                  *)
(***************************************************************************)
W_a_r == <<"a", "/", "r">>
W_a_r_m == <<"a", "/", "r", "@", "m">>
W_b_r == <<"b", "/", "r">>
W_bad_url == <<"a", ";", "b", "/", "q">>
W_missing == <<"/", "n">>

WorkspaceRoots ==
    {W_a_r, W_a_r_m, W_b_r, W_bad_url, W_missing, P_w, P_d, P_o_d, P_o_q,
     Join(S_cache_dir, N_r)}

\* the configuration when no LUCIDITY_ variable is set
DefaultConfig ==
    [cache_dir |-> S_cache_dir,
     clone_timeout |-> DEFAULT_CLONE_TIMEOUT_SECONDS,
     fetch_timeout |-> DEFAULT_FETCH_TIMEOUT_SECONDS,
     ssh_verify |-> FALSE]

\* the entries a cache root may hold at time 0
InitialEntries(name) ==
    LET co == Checkout(GithubSshUrl(<<"a">>, name), 0)
    IN  {Absent, PlainFile, PlainDir, co, [co EXCEPT !.sentinel = <<0>>]}

InitCache ==
    /\ calls = <<>>
    /\ config = DefaultConfig
    /\ process = Loaded(config)
    /\ cache \in {f \in [CacheNames -> UNION {InitialEntries(n) : n \in CacheNames}] :
                    \A n \in CacheNames : f[n] \in InitialEntries(n)}
    /\ clock = 0
    /\ launched = <<>>
    /\ last = NoOperation

\* a second passes between two calls
Tick ==
    /\ clock < MaxTicks
    /\ clock' = clock + 1
    /\ launched' = <<>>
    /\ last' = NoOperation
    /\ UNCHANGED <<process, calls, config, cache>>

\* the state after a call of ensure_repository with result r; previous is what
\* the call before it returned when that was a call with the same argument
EnsureDone(w, r) ==
    /\ cache' = r.fs
    /\ launched' = r.procs
    /\ last' = [op |-> "ensure", workspace_root |-> w, returned |-> r.returned,
                raised |-> r.raised, effects |-> r.effects,
                previous |-> IF last.op = "ensure" /\ last.workspace_root = w
                             THEN last.returned ELSE <<>>]
    /\ UNCHANGED <<process, calls, config, clock>>

\* a call of ensure_repository(w), with the outcomes of its commands drawn
EnsureCall(w, info) ==
    LET remote == info.found /\ ~is_git_repository(cache, config, w)
        valid == remote /\ cache[info.name].kind = "dir" /\ cache[info.name].git
    IN  /\ info.found => info.name \in CacheNames
        /\ \E out \in OutcomesFor(remote, valid, info.branch # <<>>) :
            /\ remote => CloneFeasible(cache, info.name, out)
            /\ EnsureDone(w, ensure_repository(cache, config, w, out, clock))

Ensure ==
    \E w \in WorkspaceRoots :
        EnsureCall(w, extract_repo_info_from_path(w, path_exists(cache, config, w)))

NextCache == Tick \/ Ensure

SpecCache == InitCache /\ [][NextCache]_vars

(***************************************************************************)
(* tools/git_utils.py: the cache eviction sweep                            *)
(***************************************************************************)
\* what the size computation of one entry meets: du prints a number ("size"),
\* du exits nonzero ("nonzero"), subprocess.run or int() raises one of the
\* exceptions the except clause names ("caught"), or du exits 0 and prints
\* nothing, so that result.stdout.split()[0] raises IndexError ("empty")
DuOutcomes == {"size", "nonzero", "caught", "empty"}

\* the bytes du reports for an entry, and the bytes os.walk adds up
DuBytes(name) == IF name = N_r THEN 5 ELSE 9
WalkBytes(name) == IF name = N_r THEN 4 ELSE 7

\* what the sweep meets at each entry: the outcome of du, and whether
\* shutil.rmtree succeeds
SweepEnv == [du : DuOutcomes, rm : BOOLEAN]

\* the access time of a valid entry
last_access(e) == IF e.sentinel # <<>> THEN e.sentinel[1] ELSE e.mtime

\* the test `last_access < cutoff_time`
is_inactive(e, current_time, days) ==
    last_access(e) < current_time - days * SECONDS_PER_DAY

\* the size computation: repo_size
repo_size(name, du) == IF du = "size" THEN DuBytes(name) ELSE WalkBytes(name)

\* the mutant of the loop body's end that counts an entry whose removal failed
CountAlways(acc, entry, size, dry_run, rmOk) ==
    [acc EXCEPT !.fs = IF dry_run \/ ~rmOk THEN acc.fs ELSE rmtree(acc.fs, entry),
                !.removed = acc.removed + 1,
                !.freed_bytes = acc.freed_bytes + size,
                !.repositories = Append(acc.repositories, entry)]

\* the mutant of the loop body's end that counts only what it removed
CountOnlyRemoved(acc, entry, size, dry_run, rmOk) ==
    IF dry_run \/ ~rmOk THEN acc
    ELSE [acc EXCEPT !.fs = rmtree(acc.fs, entry),
                     !.removed = acc.removed + 1,
                     !.freed_bytes = acc.freed_bytes + size,
                     !.repositories = Append(acc.repositories, entry)]

\* the end of the loop body for an inactive entry: remove it unless dry_run,
\* and count it unless the removal failed
RemoveAndCount(acc, entry, size, dry_run, rmOk) ==
    IF ~dry_run /\ ~rmOk THEN acc
    ELSE [acc EXCEPT !.fs = IF dry_run THEN acc.fs ELSE rmtree(acc.fs, entry),
                     !.removed = acc.removed + 1,
                     !.freed_bytes = acc.freed_bytes + size,
                     !.repositories = Append(acc.repositories, entry)]

\* the mutant of the loop body that does not tell checkouts from other directories
SweepAnyDirectory(acc, entry, days, dry_run, now, env) ==
    LET e == acc.fs[entry]
        scanned == [acc EXCEPT !.scanned = acc.scanned + 1]
    IN  IF e.kind # "dir" THEN acc
        ELSE IF ~is_inactive(e, now, days) THEN scanned
        ELSE IF env.du = "empty" THEN [scanned EXCEPT !.aborted = TRUE]
        ELSE RemoveAndCount(scanned, entry, repo_size(entry, env.du), dry_run, env.rm)

\* one iteration of the loop over os.listdir(cache_dir)
SweepEntry(acc, entry, days, dry_run, now, env) ==
    LET e == acc.fs[entry]
        scanned == [acc EXCEPT !.scanned = acc.scanned + 1]
    IN  IF e.kind # "dir" THEN acc
        ELSE IF ~e.git THEN scanned
        ELSE IF ~is_inactive(e, now, days) THEN scanned
        ELSE IF env.du = "empty" THEN [scanned EXCEPT !.aborted = TRUE]
        ELSE RemoveAndCount(scanned, entry, repo_size(entry, env.du), dry_run, env.rm)

\* the loop: an exception that leaves the loop body ends it (except Exception)
RECURSIVE SweepLoop(_, _, _, _, _, _)
SweepLoop(acc, listing, days, dry_run, now, env) ==
    IF listing = <<>> \/ acc.aborted THEN acc
    ELSE SweepLoop(SweepEntry(acc, Head(listing), days, dry_run, now, env[Head(listing)]),
                   Tail(listing), days, dry_run, now, env)

\* cleanup_inactive_repositories(days, dry_run): listing is os.listdir(cache_dir)
\* when the cache root exists; the result has the returned dictionary and the
\* file system left behind
cleanup_inactive_repositories(fs, cfg, rootExists, listing, days, dry_run, now, env) ==
    LET start == [fs |-> fs, cache_dir |-> cfg.cache_dir, scanned |-> 0, removed |-> 0,
                  freed_bytes |-> 0, repositories |-> <<>>, aborted |-> FALSE]
    IN  IF ~rootExists THEN start
        ELSE SweepLoop(start, listing, days, dry_run, now, env)

(***************************************************************************)
(* The sweep: cleanup_inactive_repositories calls on a cache root whose    *)
(* checkouts are touched at different times.                               *)
(***************************************************************************)
\* the times the clock takes: time 0, the day boundaries, and the second after
\* each boundary
ClockTimes == {0} \cup {d * SECONDS_PER_DAY + e : d \in 1..MaxDays, e \in {0, 1}}

\* the orders in which os.listdir can return the names in present
Listings(present) ==
    {l \in [1..Cardinality(present) -> present] :
        \A i, j \in 1..Cardinality(present) : l[i] = l[j] => i = j}

Present(fs) == {n \in CacheNames : fs[n].kind # "absent"}

QuietEnv == [du |-> "size", rm |-> TRUE]

\* what the sweep can meet: du and rmtree run only for the inactive checkouts,
\* and rmtree does not run in a dry run
SweepEnvsFor(fs, days, dry_run, now) ==
    {env \in [CacheNames -> SweepEnv] :
        \A n \in CacheNames :
            /\ dry_run => env[n].rm
            /\ ~(fs[n].kind = "dir" /\ fs[n].git /\ is_inactive(fs[n], now, days))
                   => env[n] = QuietEnv}

InitSweep ==
    /\ calls = <<>>
    /\ config = DefaultConfig
    /\ process = Loaded(config)
    /\ cache \in {f \in [CacheNames -> UNION {InitialEntries(n) : n \in CacheNames}] :
                    \A n \in CacheNames : f[n] \in InitialEntries(n)}
    /\ clock = 0
    /\ launched = <<>>
    /\ last = NoOperation

\* time passes between two calls
TickDays ==
    /\ \E t \in ClockTimes : t > clock /\ clock' = t
    /\ launched' = <<>>
    /\ last' = NoOperation
    /\ UNCHANGED <<process, calls, config, cache>>

\* a checkout is used: touch_repository_access(repo_path)
Touch ==
    \E n \in CacheNames :
        /\ cache[n].kind = "dir" /\ cache[n].git
        /\ cache' = touch_repository_access(cache, n, clock)
        /\ launched' = <<>>
        /\ last' = NoOperation
        /\ UNCHANGED <<process, calls, config, clock>>

\* the state after a call of cleanup_inactive_repositories with result r
SweepDone(rootExists, listing, days, dry_run, env, r) ==
    /\ cache' = r.fs
    /\ launched' = <<>>
    /\ last' = [op |-> "sweep", rootExists |-> rootExists, listing |-> listing,
                days |-> days, dry_run |-> dry_run, env |-> env,
                aborted |-> r.aborted,
                result |-> [cache_dir |-> r.cache_dir, scanned |-> r.scanned,
                            removed |-> r.removed, freed_bytes |-> r.freed_bytes,
                            repositories |-> r.repositories]]
    /\ UNCHANGED <<process, calls, config, clock>>

Sweep ==
    \E days \in 0..MaxDays, dry_run \in BOOLEAN, listing \in Listings(Present(cache)),
       rootExists \in (IF Present(cache) = {} THEN BOOLEAN ELSE {TRUE}) :
        \E env \in SweepEnvsFor(cache, days, dry_run, clock) :
            SweepDone(rootExists, listing, days, dry_run, env,
                      cleanup_inactive_repositories(cache, config, rootExists, listing,
                                                    days, dry_run, clock, env))

NextSweep == TickDays \/ Touch \/ Sweep

SpecSweep == InitSweep /\ [][NextSweep]_vars

(***************************************************************************)
(* tools/code_analysis.py: the diff parser.                                *)
(*                                                                         *)
(* A diff text is a Python string; parse_git_diff splits it into lines     *)
(* itself.  The result dictionary is a function from file names to         *)
(* records whose content, header and raw_diff are strings.                 *)
(***************************************************************************)
S_diff_git == <<"d", "i", "f", "f", " ", "-", "-", "g", "i", "t", " ">>
S_hunk == <<"@", "@">>
S_new_file == <<"n", "e", "w", " ", "f", "i", "l", "e">>
S_deleted_file == <<"d", "e", "l", "e", "t", "e", "d", " ", "f", "i", "l", "e">>
S_rename_from == <<"r", "e", "n", "a", "m", "e", " ", "f", "r", "o", "m">>

\* "\n".join(lines)
RECURSIVE JoinLines(_)
JoinLines(lines) ==
    IF lines = <<>> THEN <<>>
    ELSE IF Len(lines) = 1 THEN lines[1]
    ELSE lines[1] \o <<"\n">> \o JoinLines(Tail(lines))

\* the empty dictionary
EmptyDict == [f \in {} |-> <<>>]

\* the dictionary d after d[key] = value
DictSet(d, key, value) == (key :> value) @@ d

\* the record parse_git_diff creates at a file header
NewDiffInfo(line) ==
    [status |-> "modified", content |-> <<>>, original_content |-> <<>>,
     header |-> line, raw_diff |-> line \o <<"\n">>]

\* the local variables of parse_git_diff at the top of its loop
ParseStart ==
    [result |-> EmptyDict, current_file |-> <<>>, current_content |-> <<>>,
     current_header |-> <<>>, i |-> 0]

\* "Save previous file content if any"
SavePrevious(st) ==
    IF st.current_file = <<>> THEN st
    ELSE LET f == st.current_file[1]
         IN  [st EXCEPT !.result = DictSet(st.result, f,
                            [st.result[f] EXCEPT !.content = JoinLines(st.current_content),
                                                 !.header = JoinLines(st.current_header)]),
                        !.current_content = <<>>,
                        !.current_header = <<>>]

\* "Extract filename from diff header"
OpenFile(st, line) ==
    LET parts == Split(line, " ")
    IN  IF Len(parts) >= 4
        THEN LET file_path == From(parts[4], 2)
             IN  [st EXCEPT !.current_file = <<file_path>>,
                            !.result = DictSet(st.result, file_path, NewDiffInfo(line)),
                            !.current_header = Append(st.current_header, line)]
        ELSE st

\* the status a metadata line gives the current file
StatusAfter(status, line) ==
    IF StartsWith(line, S_new_file) THEN "added"
    ELSE IF StartsWith(line, S_deleted_file) THEN "deleted"
    ELSE IF StartsWith(line, S_rename_from) THEN "renamed"
    ELSE status

\* "Skip file metadata lines and collect headers": the inner while loop, which
\* runs until the line after i starts with "@@" or the text ends
RECURSIVE SkipMetadata(_, _)
SkipMetadata(lines, st) ==
    IF st.i + 1 < Len(lines) /\ ~StartsWith(lines[st.i + 2], S_hunk)
    THEN LET line == lines[st.i + 2]
             next == [st EXCEPT !.i = st.i + 1]
         IN  IF st.current_file = <<>> THEN SkipMetadata(lines, next)
             ELSE LET f == st.current_file[1]
                      info == st.result[f]
                  IN  SkipMetadata(lines,
                          [next EXCEPT
                              !.current_header = Append(st.current_header, line),
                              !.result = DictSet(st.result, f,
                                  [info EXCEPT !.raw_diff = info.raw_diff \o line \o <<"\n">>,
                                               !.status = StatusAfter(info.status, line)])])
    ELSE st

\* raw_diff of the current file += line + "\n"
AddRaw(st, line) ==
    LET f == st.current_file[1]
    IN  [st EXCEPT !.result = DictSet(st.result, f,
            [st.result[f] EXCEPT !.raw_diff = st.result[f].raw_diff \o line \o <<"\n">>])]

\* one pass of the outer while loop of parse_git_diff, i += 1 included
ParseLine(lines, st) ==
    LET line == lines[st.i + 1]
        after ==
            IF StartsWith(line, S_diff_git)
            THEN SkipMetadata(lines, OpenFile(SavePrevious(st), line))
            ELSE IF st.current_file # <<>> /\ StartsWith(line, S_hunk)
            THEN AddRaw([st EXCEPT !.current_header = Append(st.current_header, line)], line)
            ELSE IF /\ st.current_file # <<>>
                    /\ \/ StartsWith(line, <<"+">>)
                       \/ StartsWith(line, <<"-">>)
                       \/ StartsWith(line, <<" ">>)
            THEN AddRaw([st EXCEPT !.current_content = Append(st.current_content, line)], line)
            ELSE st
    IN  [after EXCEPT !.i = after.i + 1]

RECURSIVE ParseLoop(_, _)
ParseLoop(lines, st) ==
    IF st.i < Len(lines) THEN ParseLoop(lines, ParseLine(lines, st)) ELSE st

\* parse_git_diff(diff_content)
parse_git_diff(diff_content) ==
    LET st == ParseLoop(Split(diff_content, "\n"), ParseStart)
    IN  IF st.current_file # <<>> /\ st.current_content # <<>>
        THEN SavePrevious(st).result
        ELSE st.result

\* the mutant of the loop body that takes the +++ and --- lines for code
ExtractLineWithFileMarkers(acc, line) ==
    IF StartsWith(line, <<"+">>)
    THEN [acc EXCEPT !.modified_lines = Append(acc.modified_lines, From(line, 1))]
    ELSE IF StartsWith(line, <<"-">>)
    THEN [acc EXCEPT !.original_lines = Append(acc.original_lines, From(line, 1))]
    ELSE IF StartsWith(line, <<" ">>)
    THEN [original_lines |-> Append(acc.original_lines, From(line, 1)),
          modified_lines |-> Append(acc.modified_lines, From(line, 1))]
    ELSE acc

\* one step of the for loop of extract_code_from_diff
ExtractLine(acc, line) ==
    IF StartsWith(line, <<"+">>) /\ ~StartsWith(line, <<"+", "+", "+">>)
    THEN [acc EXCEPT !.modified_lines = Append(acc.modified_lines, From(line, 1))]
    ELSE IF StartsWith(line, <<"-">>) /\ ~StartsWith(line, <<"-", "-", "-">>)
    THEN [acc EXCEPT !.original_lines = Append(acc.original_lines, From(line, 1))]
    ELSE IF StartsWith(line, <<" ">>)
    THEN [original_lines |-> Append(acc.original_lines, From(line, 1)),
          modified_lines |-> Append(acc.modified_lines, From(line, 1))]
    ELSE acc

RECURSIVE ExtractLoop(_, _)
ExtractLoop(acc, lines) ==
    IF lines = <<>> THEN acc
    ELSE ExtractLoop(ExtractLine(acc, Head(lines)), Tail(lines))

\* extract_code_from_diff(diff_info): the pair (original_code, modified_code)
extract_code_from_diff(diff_info) ==
    LET acc == ExtractLoop([original_lines |-> <<>>, modified_lines |-> <<>>],
                           Split(diff_info.content, "\n"))
    IN  <<JoinLines(acc.original_lines), JoinLines(acc.modified_lines)>>

(***************************************************************************)
(* The diff parser applied to diff texts of up to MaxLines lines, and the  *)
(* code extraction applied to the records it returns and to records with   *)
(* any content.                                                            *)
(***************************************************************************)
L_head_x == <<"d", "i", "f", "f", " ", "-", "-", "g", "i", "t", " ", "a", "/", "x", " ", "b", "/", "x">>
L_head_y == <<"d", "i", "f", "f", " ", "-", "-", "g", "i", "t", " ", "a", "/", "y", " ", "b", "/", "y">>
\* the header of the file "m f", whose name holds a space
L_head_m_f == <<"d", "i", "f", "f", " ", "-", "-", "g", "i", "t", " ", "a", "/", "m", " ", "f", " ", "b", "/", "m", " ", "f">>
L_hunk == <<"@", "@", " ", "-", "1", " ", "+", "1", " ", "@", "@">>
L_added == <<"+", "b">>
L_removed == <<"-", "c">>
L_context == <<" ", "a">>
L_rename == <<"r", "e", "n", "a", "m", "e", " ", "f", "r", "o", "m", " ", "x">>
L_minus_file == <<"-", "-", "-", " ", "a", "/", "x">>
L_plus_file == <<"+", "+", "+", " ", "b", "/", "x">>

\* the lines of the diff texts: file headers of two files, a hunk header, the
\* three kinds of hunk lines, and metadata lines
DiffLines ==
    {L_head_x, L_head_y, L_hunk, L_added, L_removed, L_context, L_rename,
     L_minus_file, L_plus_file, <<>>}

DiffTexts == {JoinLines(l) : l \in UNION {[1..n -> DiffLines] : n \in 0..MaxLines}}

\* a call of parse_git_diff or of extract_code_from_diff that has not run yet
PendingDiffCalls ==
    [op : {"call"}, fn : {"parse_git_diff"}, diff_content : DiffTexts]
        \cup [op : {"call"}, fn : {"extract_code_from_diff"}, content : DiffTexts]

InitDiff ==
    /\ calls = <<>>
    /\ config = DefaultConfig
    /\ process = Loaded(config)
    /\ cache = [n \in CacheNames |-> Absent]
    /\ clock = 0
    /\ launched = <<>>
    /\ last \in PendingDiffCalls

ParseGitDiff ==
    /\ last.op = "call" /\ last.fn = "parse_git_diff"
    /\ last' = [op |-> "parse_git_diff", diff_content |-> last.diff_content,
                result |-> parse_git_diff(last.diff_content)]
    /\ UNCHANGED <<process, calls, config, cache, clock, launched>>

\* extract_code_from_diff on a record with any content
ExtractCodeFromDiff ==
    /\ last.op = "call" /\ last.fn = "extract_code_from_diff"
    /\ last' = [op |-> "extract_code_from_diff", content |-> last.content,
                file |-> <<>>,
                returned |-> extract_code_from_diff(
                                 [NewDiffInfo(<<>>) EXCEPT !.content = last.content])]
    /\ UNCHANGED <<process, calls, config, cache, clock, launched>>

\* extract_code_from_diff on a record of the dictionary parse_git_diff returned
ExtractParsed ==
    /\ last.op = "parse_git_diff"
    /\ \E f \in DOMAIN last.result :
        last' = [op |-> "extract_code_from_diff", content |-> last.result[f].content,
                 file |-> <<f>>,
                 returned |-> extract_code_from_diff(last.result[f])]
    /\ UNCHANGED <<process, calls, config, cache, clock, launched>>

NextDiff == ParseGitDiff \/ ExtractCodeFromDiff \/ ExtractParsed

SpecDiff == InitDiff /\ [][NextDiff]_vars

(***************************************************************************)
(* tools/code_analysis.py: get_git_diff.                                   *)
(***************************************************************************)
S_diff == <<"d", "i", "f", "f">>
S_cached == <<"-", "-", "c", "a", "c", "h", "e", "d">>

\* what git diff and git diff --cached print when they exit 0
DiffStdout == <<"+", "d">>
StagedStdout == <<"+", "s">>

\* the pair ("", "")
EmptyPair == <<<<>>, <<>>>>

\* an optional argument that is given and not empty: `if path`, `if commits`
Truthy(opt) == opt # <<>> /\ opt[1] # <<>>

\* [path.replace("\\", "/")] when path is given, [] otherwise
NormalizedPath(path) ==
    IF Truthy(path) THEN <<ReplaceChar(path[1], "\\", "/")>> ELSE <<>>

\* the outcome of the try block of get_git_diff once ensure_repository has
\* ended as e: what it returns, or what is raised in it
GetDiffBody(cfg, e, path, commits, env) ==
    IF e.raised # "none"
    THEN [fs |-> e.fs, procs |-> e.procs, returned |-> <<>>, raised |-> e.raised]
    ELSE IF e.returned = <<>>
    THEN [fs |-> e.fs, procs |-> e.procs, returned |-> <<EmptyPair>>, raised |-> "none"]
    ELSE LET cwd == e.returned[1]
             diff_args == IF Truthy(commits)
                          THEN <<S_diff, commits[1]>> \o NormalizedPath(path)
                          ELSE <<S_diff>> \o NormalizedPath(path)
             diff == run_git_command(cfg, PyStrs(diff_args), cwd, <<>>, TRUE, <<>>, env.diff)
             staged == run_git_command(cfg, PyStrs(<<S_diff, S_cached>> \o NormalizedPath(path)),
                                       cwd, <<>>, TRUE, <<>>, env.staged)
         IN  IF diff.raised # "none"
             THEN [fs |-> e.fs, procs |-> e.procs \o diff.procs,
                   returned |-> <<>>, raised |-> diff.raised]
             ELSE IF Truthy(commits)
             THEN [fs |-> e.fs, procs |-> e.procs \o diff.procs,
                   returned |-> <<<<DiffStdout, <<>>>>>>, raised |-> "none"]
             ELSE IF staged.raised # "none"
             THEN [fs |-> e.fs, procs |-> e.procs \o diff.procs \o staged.procs,
                   returned |-> <<>>, raised |-> staged.raised]
             ELSE [fs |-> e.fs, procs |-> e.procs \o diff.procs \o staged.procs,
                   returned |-> <<<<DiffStdout, StagedStdout>>>>, raised |-> "none"]

\* the mutant of the except clauses of get_git_diff that catches GitCommandError only
CatchGitCommandErrorOnly(body) ==
    IF body.raised = "GitCommandError"
    THEN [body EXCEPT !.returned = <<EmptyPair>>, !.raised = "none"]
    ELSE body

\* the except clauses of get_git_diff: GitCommandError and any other Exception
GetDiffHandlers(body) ==
    IF body.raised = "none" THEN body
    ELSE [body EXCEPT !.returned = <<EmptyPair>>, !.raised = "none"]

\* the mutant of get_git_diff that does not validate its path argument
get_git_diff_any_path(fs, cfg, workspace_root, path, commits, out, env, now) ==
    IF Truthy(commits) /\ ~is_valid_commit_range(commits[1])
    THEN [fs |-> fs, procs |-> <<>>, returned |-> <<EmptyPair>>, raised |-> "none"]
    ELSE GetDiffHandlers(
             GetDiffBody(cfg, ensure_repository(fs, cfg, workspace_root, out, now),
                         path, commits, env))

\* get_git_diff(workspace_root, path, commits)
get_git_diff(fs, cfg, workspace_root, path, commits, out, env, now) ==
    IF Truthy(commits) /\ ~is_valid_commit_range(commits[1])
    THEN [fs |-> fs, procs |-> <<>>, returned |-> <<EmptyPair>>, raised |-> "none"]
    ELSE IF Truthy(path) /\ ~is_valid_path(path[1])
    THEN [fs |-> fs, procs |-> <<>>, returned |-> <<EmptyPair>>, raised |-> "none"]
    ELSE GetDiffHandlers(
             GetDiffBody(cfg, ensure_repository(fs, cfg, workspace_root, out, now),
                         path, commits, env))

(***************************************************************************)
(* get_git_diff calls on a cache root, with valid and invalid paths and    *)
(* commit ranges and every outcome of the commands they launch.            *)
(***************************************************************************)
\* identifiers with a '-' where an option could be read: "-a/r" and "a@-x/r"
W_dash_a_r == <<"-", "a", "/", "r">>
W_a_at_dash_r == <<"a", "@", "-", "x", "/", "r">>

DiffRoots == {W_a_r, W_a_r_m, W_dash_a_r, W_a_at_dash_r, W_missing, P_w, P_d}

\* path arguments: None, "", a file, an option, a Windows path, a traversal
DiffPaths ==
    {<<>>, <<<<>>>>, <<<<"f">>>>, <<<<"-", "x">>>>, <<<<"a", "\\", "f">>>>,
     <<<<".", ".", "/", "e">>>>}

\* commits arguments: None, a range, an injection, a single ref
DiffCommits ==
    {<<>>, <<<<"a", ".", ".", "b">>>>, <<<<"a", ";", "b">>>>, <<<<"a">>>>}

DiffEnvs ==
    [diff : {"exit0"}, staged : ProcessOutcomes] \cup [diff : Failures, staged : {"exit0"}]

\* a call of get_git_diff that has not run yet
PendingGetDiffCalls ==
    [op : {"call"}, fn : {"get_git_diff"}, workspace_root : DiffRoots,
     path : DiffPaths, commits : DiffCommits]

InitGetDiff ==
    /\ calls = <<>>
    /\ config = DefaultConfig
    /\ process = Loaded(config)
    /\ cache \in {f \in [CacheNames -> UNION {InitialEntries(n) : n \in CacheNames}] :
                    \A n \in CacheNames : f[n] \in InitialEntries(n)}
    /\ clock = 0
    /\ launched = <<>>
    /\ last \in PendingGetDiffCalls

\* the state after a call of get_git_diff with result r
GetGitDiffDone(w, path, commits, r) ==
    /\ cache' = r.fs
    /\ launched' = r.procs
    /\ last' = [op |-> "get_git_diff", workspace_root |-> w, path |-> path,
                commits |-> commits, returned |-> r.returned, raised |-> r.raised]
    /\ UNCHANGED <<process, calls, config, clock>>

\* the call runs, with the outcomes of the commands it launches drawn
GetGitDiffCall(w, info) ==
    LET remote == info.found /\ ~is_git_repository(cache, config, w)
        valid == remote /\ cache[info.name].kind = "dir" /\ cache[info.name].git
    IN  \E env \in DiffEnvs :
            \E out \in OutcomesFor(remote, valid, info.branch # <<>>) :
                /\ remote => CloneFeasible(cache, info.name, out)
                /\ GetGitDiffDone(w, last.path, last.commits,
                       get_git_diff(cache, config, w, last.path, last.commits,
                                    out, env, clock))

GetGitDiff ==
    /\ last.op = "call" /\ last.fn = "get_git_diff"
    /\ GetGitDiffCall(last.workspace_root,
           extract_repo_info_from_path(last.workspace_root,
               path_exists(cache, config, last.workspace_root)))

NextGetDiff == GetGitDiff

SpecGetDiff == InitGetDiff /\ [][NextGetDiff]_vars

(***************************************************************************)
(* tools/git_utils.py: concurrent ensure_repository calls                  *)
(*                                                                         *)
(* Nothing in ensure_repository, clone_repository or update_repository     *)
(* takes a lock, so the steps of two calls for one identifier interleave.  *)
(* A call is at `pc`, the next statement of clone_repository or            *)
(* update_repository that reads or changes the clone path; between two of  *)
(* them any other call may take steps.  `intact` records, when the call    *)
(* returns a path, whether a checkout is at that path at that moment.      *)
(***************************************************************************)
MaxCalls == 2

RaceCalls == 1..MaxCalls

\* both calls are ensure_repository("a/r"): no branch, clone path <cache>/r
RaceInfo == extract_repo_info_from_path(W_a_r, FALSE)
RaceName == RaceInfo.name
RacePath(cfg) == get_clone_directory(cfg, RaceName)

CallAt(pc) == [pc |-> pc, returned |-> <<>>, intact |-> FALSE, effects |-> <<>>]

\* a call that ended: it returned `returned` (<<>> for None)
Returned(fs, cfg, c, returned, effects) ==
    [pc |-> "done", returned |-> returned,
     intact |-> returned # <<>> /\ is_git_repository(fs, cfg, returned[1]),
     effects |-> c.effects \o effects]

GoTo(c, pc, effects) == [c EXCEPT !.pc = pc, !.effects = c.effects \o effects]

\* a git command run inside a directory that is not a checkout fails
GitFeasibleIn(fs, cfg, outcome) ==
    ~is_git_repository(fs, cfg, RacePath(cfg)) => outcome # "exit0"

\* git clones into a missing or an empty directory only, and leaves a
\* directory it did not create as it found it
CloneFeasibleOnto(fs, outcome, partial) ==
    LET e == fs[RaceName]
    IN  /\ e.kind = "file" => outcome # "exit0"
        /\ e.kind = "dir" /\ (e.git \/ e.sentinel # <<>>)
               => outcome # "exit0" /\ partial = "nothing"

\* clone_repository: `if is_git_repository(clone_path)`
RaceCheck(fs, cfg, c) ==
    [fs |-> fs, procs |-> <<>>,
     call |-> IF is_git_repository(fs, cfg, RacePath(cfg))
              THEN GoTo(c, "recheck", <<>>)
              ELSE GoTo(c, "clone", <<>>)]

\* update_repository: `if not is_git_repository(repo_path): return False`
RaceRecheck(fs, cfg, c) ==
    [fs |-> fs, procs |-> <<>>,
     call |-> IF is_git_repository(fs, cfg, RacePath(cfg))
              THEN GoTo(c, "fetch", <<>>)
              ELSE GoTo(c, "remove", <<>>)]

\* update_repository: git fetch --all; any exception makes it return False
RaceFetch(fs, cfg, c, outcome) ==
    LET run == run_git_command(cfg, PyStrs(<<S_fetch, S_all>>), RacePath(cfg),
                               <<cfg.fetch_timeout>>, TRUE, <<>>, outcome)
    IN  [fs |-> fs, procs |-> run.procs,
         call |-> IF run.raised = "none" THEN GoTo(c, "pull", <<>>)
                  ELSE GoTo(c, "remove", <<>>)]

\* update_repository: git pull
RacePull(fs, cfg, c, outcome) ==
    LET run == run_git_command(cfg, PyStrs(<<S_pull>>), RacePath(cfg),
                               <<cfg.fetch_timeout>>, TRUE, <<>>, outcome)
    IN  [fs |-> fs, procs |-> run.procs,
         call |-> IF run.raised = "none" THEN GoTo(c, "touch", <<>>)
                  ELSE GoTo(c, "remove", <<>>)]

\* touch_repository_access(clone_path) and `return clone_path`, after a
\* successful update or a successful clone
RaceTouch(fs, cfg, c, now) ==
    LET after == touch_repository_access(fs, RaceName, now)
    IN  [fs |-> after, procs |-> <<>>,
         call |-> Returned(after, cfg, c, <<RacePath(cfg)>>,
                           <<Effect("touch", RaceName)>>)]

\* the mutant of the step after a failed update that returns the clone path
\* as soon as the entry is removed
RemoveAndReturnPath(fs, cfg, c) ==
    LET after == IF rmtree_raises(fs, RaceName) THEN fs ELSE rmtree(fs, RaceName)
    IN  [fs |-> after, procs |-> <<>>,
         call |-> Returned(after, cfg, c, <<RacePath(cfg)>>, <<>>)]

\* clone_repository after a failed update: shutil.rmtree(clone_path); when
\* it raises, `except Exception` runs and the call returns None
RaceRemove(fs, cfg, c) ==
    IF rmtree_raises(fs, RaceName)
    THEN LET cleanup == FailedClone(fs, cfg, RaceName)
         IN  [fs |-> cleanup.fs, procs |-> <<>>,
              call |-> Returned(cleanup.fs, cfg, c, <<>>, cleanup.effects)]
    ELSE [fs |-> rmtree(fs, RaceName), procs |-> <<>>,
          call |-> GoTo(c, "clone", <<Effect("rmtree", RaceName)>>)]

\* clone_repository: git clone <url> <clone_path>
RaceClone(fs, cfg, c, outcome, partial, now) ==
    LET run == run_git_command(cfg, PyStrs(<<S_clone, RaceInfo.url, RacePath(cfg)>>),
                               DirnameOrDot(RacePath(cfg)), <<cfg.clone_timeout>>,
                               TRUE, <<>>, outcome)
        after == IF run.procs = <<>> THEN fs
                 ELSE CloneProcess(fs, RaceName, RaceInfo.url, outcome, partial, now)
    IN  [fs |-> after, procs |-> run.procs,
         call |-> IF run.raised = "none"
                  THEN GoTo(c, "touch", <<Effect("clone", RaceName)>>)
                  ELSE GoTo(c, "cleanup", <<>>)]

\* the except clauses of clone_repository after a failed clone
RaceCleanup(fs, cfg, c) ==
    LET cleanup == FailedClone(fs, cfg, RaceName)
    IN  [fs |-> cleanup.fs, procs |-> <<>>,
         call |-> Returned(cleanup.fs, cfg, c, <<>>, cleanup.effects)]

(***************************************************************************)
(* Specification SpecRace: MaxCalls concurrent ensure_repository("a/r")    *)
(***************************************************************************)
InitRace ==
    /\ calls = [p \in RaceCalls |-> CallAt("check")]
    /\ config = DefaultConfig
    /\ process = Loaded(config)
    /\ cache \in {[n \in CacheNames |-> IF n = RaceName THEN e ELSE Absent] :
                    e \in {Absent, Checkout(RaceInfo.url, 0)}}
    /\ clock = 0
    /\ launched = <<>>
    /\ last = NoOperation

\* call p took the step `r`
RaceStep(p, r) ==
    /\ calls' = [calls EXCEPT ![p] = r.call]
    /\ cache' = r.fs
    /\ launched' = r.procs
    /\ last' = [op |-> "step", call |-> p]
    /\ UNCHANGED <<process, config, clock>>

Check ==
    \E p \in RaceCalls :
        /\ calls[p].pc = "check"
        /\ RaceStep(p, RaceCheck(cache, config, calls[p]))

Recheck ==
    \E p \in RaceCalls :
        /\ calls[p].pc = "recheck"
        /\ RaceStep(p, RaceRecheck(cache, config, calls[p]))

Fetch ==
    \E p \in RaceCalls, outcome \in ProcessOutcomes :
        /\ calls[p].pc = "fetch"
        /\ GitFeasibleIn(cache, config, outcome)
        /\ RaceStep(p, RaceFetch(cache, config, calls[p], outcome))

Pull ==
    \E p \in RaceCalls, outcome \in ProcessOutcomes :
        /\ calls[p].pc = "pull"
        /\ GitFeasibleIn(cache, config, outcome)
        /\ RaceStep(p, RacePull(cache, config, calls[p], outcome))

TouchAndReturn ==
    \E p \in RaceCalls :
        /\ calls[p].pc = "touch"
        /\ RaceStep(p, RaceTouch(cache, config, calls[p], clock))

Remove ==
    \E p \in RaceCalls :
        /\ calls[p].pc = "remove"
        /\ RaceStep(p, RaceRemove(cache, config, calls[p]))

Clone ==
    \E p \in RaceCalls, run \in CloneRuns :
        /\ calls[p].pc = "clone"
        /\ CloneFeasibleOnto(cache, run.clone, run.partial)
        /\ RaceStep(p, RaceClone(cache, config, calls[p], run.clone, run.partial, clock))

Cleanup ==
    \E p \in RaceCalls :
        /\ calls[p].pc = "cleanup"
        /\ RaceStep(p, RaceCleanup(cache, config, calls[p]))

NextRace ==
    Check \/ Recheck \/ Fetch \/ Pull \/ TouchAndReturn \/ Remove \/ Clone \/ Cleanup

SpecRace == InitRace /\ [][NextRace]_vars

(***************************************************************************)
(* tools/git_utils.py: cleanup_inactive_repositories running while         *)
(* ensure_repository calls are in flight                                   *)
(*                                                                         *)
(* The sweep takes no lock either.  It is the process `Sweeper` of         *)
(* `calls`; between its listing of the cache root, its tests of an entry   *)
(* and its removal of the entry the ensure calls may take steps, and so    *)
(* may the diff command that a caller runs in the path ensure returned.    *)
(***************************************************************************)
Sweeper == 0

SweepAt(pc, days, dry_run, current_time) ==
    [pc |-> pc, days |-> days, dry_run |-> dry_run,
     current_time |-> current_time, repositories |-> <<>>]

\* `current_time = time.time()` and `os.listdir(cache_dir)`: the loop has an
\* entry to visit when something is at the clone path
SweepListdir(fs, s, now) ==
    [s EXCEPT !.current_time = now,
              !.pc = IF fs[RaceName].kind = "absent" THEN "done" ELSE "entry"]

\* the tests of the loop body: os.path.isdir, is_git_repository and
\* `last_access < cutoff_time`
SweepTests(fs, s) ==
    LET e == fs[RaceName]
    IN  IF e.kind # "dir" \/ ~e.git \/ ~is_inactive(e, s.current_time, s.days)
        THEN [s EXCEPT !.pc = "done"]
        ELSE IF s.dry_run
        THEN [s EXCEPT !.pc = "done", !.repositories = <<RaceName>>]
        ELSE [s EXCEPT !.pc = "rmtree"]

\* `shutil.rmtree(repo_path)` of the loop body; when it raises, the entry is
\* not reported
SweepRmtree(fs, s) ==
    IF rmtree_raises(fs, RaceName)
    THEN [fs |-> fs, sweep |-> [s EXCEPT !.pc = "done"]]
    ELSE [fs |-> rmtree(fs, RaceName),
          sweep |-> [s EXCEPT !.pc = "done", !.repositories = <<RaceName>>]]

\* get_git_diff after ensure_repository returned a path: git diff run there
DiffIn(cfg, cwd, outcome) ==
    run_git_command(cfg, PyStrs(<<S_diff>>), cwd, <<>>, TRUE, <<>>, outcome)

(***************************************************************************)
(* Specification SpecSweepRace: ensure_repository("a/r") calls, each       *)
(* followed by its caller's diff command, and one sweep, all concurrent.   *)
(* The entry, when present at the start, was last used at time 0, more     *)
(* than MaxDays days ago.                                                  *)
(***************************************************************************)
SweepRaceTime == MaxDays * SECONDS_PER_DAY + 1

InitSweepRace ==
    /\ \E days \in 1..MaxDays, dry_run \in BOOLEAN :
           calls = [p \in RaceCalls \cup {Sweeper} |->
                       IF p = Sweeper THEN SweepAt("listdir", days, dry_run, 0)
                       ELSE CallAt("check")]
    /\ config = DefaultConfig
    /\ process = Loaded(config)
    /\ cache \in {[n \in CacheNames |-> IF n = RaceName THEN e ELSE Absent] :
                    e \in {Absent, Checkout(RaceInfo.url, 0),
                           [Checkout(RaceInfo.url, 0) EXCEPT !.sentinel = <<0>>]}}
    /\ clock = SweepRaceTime
    /\ launched = <<>>
    /\ last = NoOperation

\* the sweep took a step; `removed` tells whether it deleted the entry
SweepStep(s, fs) ==
    /\ calls' = [calls EXCEPT ![Sweeper] = s]
    /\ cache' = fs
    /\ launched' = <<>>
    /\ last' = [op |-> "sweep", removed |-> fs # cache]
    /\ UNCHANGED <<process, config, clock>>

Listdir ==
    /\ calls[Sweeper].pc = "listdir"
    /\ SweepStep(SweepListdir(cache, calls[Sweeper], clock), cache)

Tests ==
    /\ calls[Sweeper].pc = "entry"
    /\ SweepStep(SweepTests(cache, calls[Sweeper]), cache)

Rmtree ==
    /\ calls[Sweeper].pc = "rmtree"
    /\ LET r == SweepRmtree(cache, calls[Sweeper])
       IN  SweepStep(r.sweep, r.fs)

\* the caller of a call that returned a path runs its diff command there
Diff ==
    \E p \in RaceCalls, outcome \in ProcessOutcomes :
        /\ calls[p].pc = "done"
        /\ calls[p].returned # <<>>
        /\ GitFeasibleIn(cache, config, outcome)
        /\ calls' = [calls EXCEPT ![p].pc = "diffed"]
        /\ launched' = DiffIn(config, calls[p].returned[1], outcome).procs
        /\ last' = [op |-> "diff", call |-> p, cwd |-> calls[p].returned[1],
                    valid |-> is_git_repository(cache, config, calls[p].returned[1])]
        /\ UNCHANGED <<process, config, cache, clock>>

NextSweepRace ==
    \/ Check \/ Recheck \/ Fetch \/ Pull \/ TouchAndReturn \/ Remove \/ Clone
    \/ Cleanup \/ Listdir \/ Tests \/ Rmtree \/ Diff

SpecSweepRace == InitSweepRace /\ [][NextSweepRace]_vars

(***************************************************************************)
(* Specification SpecHistory: ensure_repository and                        *)
(* cleanup_inactive_repositories called one after the other while time     *)
(* passes.  `calls` keeps, for each cache entry, the time of the latest    *)
(* ensure_repository call that resolved to it and returned its path.       *)
(***************************************************************************)
\* both identifiers resolve to the entry r; the entry q is never ensured
HistoryRoots == {W_a_r, W_a_r_m}

InitHistory ==
    /\ calls = [n \in CacheNames |-> <<>>]
    /\ config = DefaultConfig
    /\ process = Loaded(config)
    /\ cache \in {f \in [CacheNames -> UNION {InitialEntries(n) : n \in CacheNames}] :
                    /\ f[N_r] \in InitialEntries(N_r)
                    /\ f[N_q] \in {Absent, Checkout(GithubSshUrl(<<"a">>, N_q), 0)}}
    /\ clock = 0
    /\ launched = <<>>
    /\ last = NoOperation

\* the state after ensure_repository(w) with result r
EnsureRecorded(w, info, r) ==
    /\ cache' = r.fs
    /\ launched' = r.procs
    /\ last' = [op |-> "ensure", workspace_root |-> w, returned |-> r.returned,
                raised |-> r.raised, effects |-> r.effects, previous |-> <<>>]
    /\ calls' = IF info.found /\ r.returned # <<>>
                THEN [calls EXCEPT ![info.name] = <<clock>>]
                ELSE calls
    /\ UNCHANGED <<process, config, clock>>

\* a call of ensure_repository(w), with the outcomes of its commands drawn
EnsureInHistoryCall(w, info) ==
    LET valid == info.found /\ cache[info.name].kind = "dir" /\ cache[info.name].git
    IN  \E out \in OutcomesFor(info.found, valid, info.branch # <<>>) :
            /\ info.found => CloneFeasible(cache, info.name, out)
            /\ EnsureRecorded(w, info, ensure_repository(cache, config, w, out, clock))

EnsureInHistory ==
    \E w \in HistoryRoots :
        EnsureInHistoryCall(w, extract_repo_info_from_path(w, path_exists(cache, config, w)))

NextHistory == TickDays \/ EnsureInHistory \/ Sweep

SpecHistory == InitHistory /\ [][NextHistory]_vars

(***************************************************************************)
(* Specification SpecValid: the validators of validation.py applied to     *)
(* every string of at most MaxLen characters over ValidChars               *)
(***************************************************************************)
MaxLen == 4

\* a character of every class the validators tell apart
ValidChars == {"a", ".", "-", "/", "~", "@", ";", "\n", "\\"}

ValidStrings == UNION {[1..n -> ValidChars] : n \in 0..MaxLen}

Validators == {"is_valid_branch_name", "is_valid_commit_range", "is_valid_path"}

InitValid ==
    /\ calls = <<>>
    /\ config = DefaultConfig
    /\ process = Loaded(config)
    /\ cache = [n \in CacheNames |-> Absent]
    /\ clock = 0
    /\ launched = <<>>
    /\ last \in [op : {"call"}, fn : Validators, arg : ValidStrings]

Validated(result) ==
    /\ last' = [op |-> last.fn, arg |-> last.arg, result |-> result]
    /\ UNCHANGED <<process, calls, config, cache, clock, launched>>

IsValidBranchName ==
    /\ last.op = "call" /\ last.fn = "is_valid_branch_name"
    /\ Validated(is_valid_branch_name(last.arg))

IsValidCommitRange ==
    /\ last.op = "call" /\ last.fn = "is_valid_commit_range"
    /\ Validated(is_valid_commit_range(last.arg))

IsValidPath ==
    /\ last.op = "call" /\ last.fn = "is_valid_path"
    /\ Validated(is_valid_path(last.arg))

NextValid == IsValidBranchName \/ IsValidCommitRange \/ IsValidPath

SpecValid == InitValid /\ [][NextValid]_vars

(***************************************************************************)
(* Specification SpecResolve: extract_repo_info_from_path applied to       *)
(* identifiers put together from a form, an owner, a repository and an     *)
(* optional @branch suffix, and to a few strings of no remote form         *)
(***************************************************************************)
S_github_com_slash == S_github_com \o <<"/">>

\* what precedes owner/repo: nothing, github.com/, git@h:, https://h/, http://h/
FormPrefixes ==
    {<<>>, S_github_com_slash, S_git_at \o <<"h", ":">>,
     S_https \o <<"h", "/">>, S_http \o <<"h", "/">>}

Owners == {<<"a">>, <<>>, <<".", "a">>, <<" ", "a">>}

Repos ==
    {<<"r">>, <<"r">> \o S_dot_git, <<"a", ":", "r">>, <<>>, <<"r", " ">>,
     <<".", ".">>}

BranchNames ==
    {<<"m">>, <<"m", "\n">>, <<"-", "x">>, <<"a", "/", "b">>,
     <<"r", "e", "-", "1", ".", "0">>}

BranchSuffixes == {<<>>} \cup {<<"@">> \o b : b \in BranchNames}

\* what follows the scheme of a URL with a user name: u@h/a/r
W_userinfo == <<"u", "@", "h", "/", "a", "/", "r">>

Identifiers ==
    {p \o o \o <<"/">> \o r \o s :
        p \in FormPrefixes, o \in Owners, r \in Repos, s \in BranchSuffixes}
    \cup {<<>>, <<"a">>, W_missing, <<"a", "/", "b", "/", "c">>}
    \cup {scheme \o W_userinfo : scheme \in {S_http, S_https}}

InitResolve ==
    /\ calls = <<>>
    /\ config = DefaultConfig
    /\ process = Loaded(config)
    /\ cache = [n \in CacheNames |-> Absent]
    /\ clock = 0
    /\ launched = <<>>
    /\ last \in [op : {"call"}, workspace_root : Identifiers, exists : BOOLEAN]

ExtractRepoInfoFromPath ==
    /\ last.op = "call"
    /\ last' = [op |-> "extract_repo_info_from_path",
                workspace_root |-> last.workspace_root,
                exists |-> last.exists,
                info |-> extract_repo_info_from_path(last.workspace_root, last.exists)]
    /\ UNCHANGED <<process, calls, config, cache, clock, launched>>

NextResolve == ExtractRepoInfoFromPath

SpecResolve == InitResolve /\ [][NextResolve]_vars

(***************************************************************************)
(* Specification SpecConfig: the configuration singleton while the         *)
(* environment changes                                                     *)
(***************************************************************************)
S_status == <<"s", "t", "a", "t", "u", "s">>

CacheDirSettings == {<<>>, <<<<"/", "x">>>>, <<<<"/", "y">>>>}

SshVerifySettings ==
    {<<>>, <<S_true>>, <<<<"T", "r", "u", "e">>>>, <<<<"1">>>>, <<S_yes>>,
     <<S_false>>, <<<<"0">>>>, <<<<>>>>}

Environs == [LUCIDITY_CACHE_DIR : CacheDirSettings, LUCIDITY_SSH_VERIFY : SshVerifySettings]

\* the process after import: config._config is None; `config` holds the
\* instance get_config() returned last, the defaults before any call
InitConfig ==
    /\ calls = <<>>
    /\ process \in [environ : Environs, global_config : {<<>>}]
    /\ config = DefaultConfig
    /\ cache = [n \in CacheNames |-> Absent]
    /\ clock = 0
    /\ launched = <<>>
    /\ last = NoOperation

\* os.environ[name] = value, or del os.environ[name]
SetEnviron ==
    /\ \E e \in Environs :
        /\ e # process.environ
        /\ \/ e.LUCIDITY_CACHE_DIR = process.environ.LUCIDITY_CACHE_DIR
           \/ e.LUCIDITY_SSH_VERIFY = process.environ.LUCIDITY_SSH_VERIFY
        /\ process' = [process EXCEPT !.environ = e]
    /\ last' = [op |-> "environ"]
    /\ UNCHANGED <<calls, config, cache, clock, launched>>

GetConfig ==
    LET got == get_config(process)
    IN  /\ process' = got.process
        /\ config' = got.config
        /\ last' = [op |-> "get_config", created |-> process.global_config = <<>>]
        /\ UNCHANGED <<calls, cache, clock, launched>>

GetCacheDirectory ==
    LET got == get_cache_directory(process)
    IN  /\ process' = got.process
        /\ config' = got.process.global_config[1]
        /\ last' = [op |-> "get_cache_directory", returned |-> got.returned,
                    created |-> process.global_config = <<>>]
        /\ UNCHANGED <<calls, cache, clock, launched>>

\* run_git_command(["status"], cwd): it reads the configuration itself
RunGitStatus ==
    \E outcome \in ProcessOutcomes :
        LET got == get_config(process)
            r == run_git_command(got.config, PyStrs(<<S_status>>), P_w, <<>>, TRUE,
                                 <<>>, outcome)
        IN  /\ process' = got.process
            /\ config' = got.config
            /\ launched' = r.procs
            /\ last' = [op |-> "run_git_command", args |-> PyStrs(<<S_status>>),
                        check |-> TRUE, timeout |-> <<>>,
                        raised |-> r.raised, carried |-> r.carried,
                        created |-> process.global_config = <<>>]
            /\ UNCHANGED <<calls, cache, clock>>

NextConfig == SetEnviron \/ GetConfig \/ GetCacheDirectory \/ RunGitStatus

SpecConfig == InitConfig /\ [][NextConfig]_vars

(***************************************************************************)
(* Specification SpecEnv: run_git_command under both settings of           *)
(* ssh_verify, in processes with different environments and with           *)
(* different env_overrides.                                                *)
(***************************************************************************)
EnvNames == {"GIT_SSH_COMMAND", "HOME"}
EnvValues == {"x", "y"}

\* the dictionaries over EnvNames
Environments == UNION {[names -> EnvValues] : names \in SUBSET EnvNames}

InitEnv ==
    /\ calls = <<>>
    /\ config \in Configs
    /\ \E environ \in Environments :
           process = [environ |-> environ, global_config |-> <<config>>]
    /\ cache = [n \in CacheNames |-> Absent]
    /\ clock = 0
    /\ launched = <<>>
    /\ \E env_overrides \in {<<>>} \cup {<<d>> : d \in Environments} :
           last = [op |-> "call", env_overrides |-> env_overrides]

\* run_git_command(["status"], env_overrides=...); env is the environment
\* handed to subprocess.run
RunGitInEnvironment ==
    /\ last.op = "call"
    /\ \E outcome \in ProcessOutcomes :
        LET r == run_git_command(config, PyStrs(<<S_status>>), P_w, <<>>, TRUE,
                                 last.env_overrides, outcome)
        IN  /\ launched' = r.procs
            /\ last' = [op |-> "run_git_command", env_overrides |-> last.env_overrides,
                        raised |-> r.raised,
                        env |-> ChildEnvironment(config, process.environ,
                                                 last.env_overrides)]
    /\ UNCHANGED <<process, calls, config, cache, clock>>

NextEnv == RunGitInEnvironment

SpecEnv == InitEnv /\ [][NextEnv]_vars

(***************************************************************************)
(* tools/code_analysis.py: get_changed_files and analyze_changes           *)
(*                                                                         *)
(* The result of analyze_changes is reduced to its status, the kind of its *)
(* message and its file list; the analysis prompts built for the files of  *)
(* a successful request are left out.                                      *)
(***************************************************************************)
S_name_only == <<"-", "-", "n", "a", "m", "e", "-", "o", "n", "l", "y">>
S_dot_slash == <<".", "/">>
S_dot_dot_slash == <<".", ".", "/">>

\* what git diff --name-only prints when it exits 0
NamesStdout == <<"f">>

\* the try block of get_changed_files once ensure_repository has ended as
\* e, and its except clauses: any failure gives the empty list
ChangedFilesBody(cfg, e, env) ==
    IF e.raised # "none" \/ e.returned = <<>>
    THEN [fs |-> e.fs, procs |-> e.procs, returned |-> {}]
    ELSE LET cwd == e.returned[1]
             unstaged == run_git_command(cfg, PyStrs(<<S_diff, S_name_only>>), cwd,
                                         <<>>, TRUE, <<>>, env.diff)
             staged == run_git_command(cfg, PyStrs(<<S_diff, S_cached, S_name_only>>),
                                       cwd, <<>>, TRUE, <<>>, env.staged)
         IN  IF unstaged.raised # "none"
             THEN [fs |-> e.fs, procs |-> e.procs \o unstaged.procs, returned |-> {}]
             ELSE IF staged.raised # "none"
             THEN [fs |-> e.fs, procs |-> e.procs \o unstaged.procs \o staged.procs,
                   returned |-> {}]
             ELSE [fs |-> e.fs, procs |-> e.procs \o unstaged.procs \o staged.procs,
                   returned |-> {NamesStdout}]

\* get_changed_files(workspace_root)
get_changed_files(fs, cfg, workspace_root, out, env, now) ==
    ChangedFilesBody(cfg, ensure_repository(fs, cfg, workspace_root, out, now), env)

Answer(fs, procs, status, message, files) ==
    [fs |-> fs, procs |-> procs, status |-> status, message |-> message,
     file_list |-> files, raised |-> "none"]

\* `combined_diff` of analyze_changes
CombinedDiff(diff_content, staged_content) ==
    IF staged_content = <<>> THEN diff_content
    ELSE IF diff_content = <<>> THEN staged_content
    ELSE diff_content \o <<"\n">> \o staged_content

\* the end of analyze_changes, from the combined diff on
AnalyzeCombined(fs, procs, commits, combined_diff, parsed_diff, changed_files) ==
    IF combined_diff = <<>>
    THEN Answer(fs, procs, "no_changes",
                IF Truthy(commits) THEN "no_changes_in_range"
                ELSE "no_uncommitted_changes", {})
    ELSE IF DOMAIN parsed_diff = {}
    THEN Answer(fs, procs, "no_changes", "no_parseable_changes", changed_files)
    ELSE Answer(fs, procs, "success", "instructions", DOMAIN parsed_diff)

\* analyze_changes once get_git_diff and get_changed_files have returned
AnalyzeListed(commits, procs, diff, changed, combined_diff) ==
    AnalyzeCombined(changed.fs, procs \o diff.procs \o changed.procs, commits,
                    combined_diff, parse_git_diff(combined_diff), changed.returned)

\* analyze_changes once get_git_diff has returned
AnalyzeDiffed(cfg, workspace_root, commits, procs, diff, later, env, now) ==
    AnalyzeListed(commits, procs, diff,
                  get_changed_files(diff.fs, cfg, workspace_root, later, env, now),
                  CombinedDiff(diff.returned[1][1], diff.returned[1][2]))

\* the answer of analyze_changes when ensure_repository returned None
CouldNotAccess(fs, procs, workspace_root) ==
    IF \/ StartsWith(workspace_root, <<"/">>)
       \/ StartsWith(workspace_root, S_dot_slash)
       \/ StartsWith(workspace_root, S_dot_dot_slash)
    THEN Answer(fs, procs, "error", "local_path_guidance", {})
    ELSE Answer(fs, procs, "error", "could_not_access", {})

\* analyze_changes once its own ensure_repository call has ended as e; an
\* exception of that call is not caught
AnalyzeEnsured(cfg, workspace_root, path, commits, e, later, env, now) ==
    IF e.raised # "none"
    THEN [fs |-> e.fs, procs |-> e.procs, status |-> "none", message |-> "none",
          file_list |-> {}, raised |-> e.raised]
    ELSE IF e.returned = <<>>
    THEN CouldNotAccess(e.fs, e.procs, workspace_root)
    ELSE AnalyzeDiffed(cfg, workspace_root, commits, e.procs,
                       get_git_diff(e.fs, cfg, workspace_root, path, commits,
                                    later, env, now),
                       later, env, now)

\* analyze_changes(workspace_root, path, commits); path is <<"">> by default
analyze_changes(fs, cfg, workspace_root, path, commits, out, later, env, now) ==
    IF workspace_root = <<>>
    THEN Answer(fs, <<>>, "error", "workspace_root_required", {})
    ELSE AnalyzeEnsured(cfg, workspace_root, path, commits,
                        ensure_repository(fs, cfg, workspace_root, out, now),
                        later, env, now)

(***************************************************************************)
(* Specification SpecAnalyze: analyze_changes and get_git_diff requests    *)
(***************************************************************************)
W_dot_slash == <<".", "/", "n">>
W_dot_dot_slash == <<".", ".", "/", "n">>
W_plain == <<"n">>

AnalyzeRoots ==
    {W_a_r, W_missing, W_dot_slash, W_dot_dot_slash, W_plain, W_bad_url, P_w, P_d, <<>>}

AnalyzePaths == {<<<<>>>>, <<<<"f">>>>, <<<<"-", "x">>>>}

AnalyzeCommits == {<<>>, <<<<"a", ".", ".", "b">>>>, <<<<"a", ";", "b">>>>}

\* how the commands of the later ensure_repository calls of a request end
LaterOutcomes ==
    {Outcome(UpdateSucceeds, CloneSucceeds),
     Outcome([fetch |-> "nonzero", checkout |-> "exit0", pull |-> "exit0"],
             [clone |-> "nonzero", partial |-> "nothing"])}

AnalyzeEnvs == {[diff |-> "exit0", staged |-> "exit0"], [diff |-> "nonzero", staged |-> "exit0"]}

PendingAnalyzeCalls ==
    [op : {"call"}, fn : {"analyze_changes", "get_git_diff"},
     workspace_root : AnalyzeRoots, path : AnalyzePaths, commits : AnalyzeCommits]

InitAnalyze ==
    /\ calls = <<>>
    /\ config = DefaultConfig
    /\ process = Loaded(config)
    /\ cache \in {f \in [CacheNames -> UNION {InitialEntries(n) : n \in CacheNames}] :
                    /\ f[N_r] \in InitialEntries(N_r)
                    /\ f[N_q] = Absent}
    /\ clock = 0
    /\ launched = <<>>
    /\ last \in PendingAnalyzeCalls

\* the state after a call of analyze_changes with result r
AnalyzeChangesDone(w, path, commits, r) ==
    /\ cache' = r.fs
    /\ launched' = r.procs
    /\ last' = [op |-> "analyze_changes", workspace_root |-> w,
                path |-> path, commits |-> commits, previous |-> cache,
                status |-> r.status, message |-> r.message,
                file_list |-> r.file_list, raised |-> r.raised]
    /\ UNCHANGED <<calls, process, config, clock>>

AnalyzeChangesCall(w, info) ==
    LET remote == info.found /\ ~is_git_repository(cache, config, w)
        valid == remote /\ cache[info.name].kind = "dir" /\ cache[info.name].git
    IN  \E env \in AnalyzeEnvs, later \in LaterOutcomes :
            \E out \in OutcomesFor(remote, valid, info.branch # <<>>) :
                /\ remote => CloneFeasible(cache, info.name, out)
                /\ AnalyzeChangesDone(w, last.path, last.commits,
                       analyze_changes(cache, config, w, last.path, last.commits,
                                       out, later, env, clock))

AnalyzeChanges ==
    /\ last.op = "call" /\ last.fn = "analyze_changes"
    /\ AnalyzeChangesCall(last.workspace_root,
           extract_repo_info_from_path(last.workspace_root,
               path_exists(cache, config, last.workspace_root)))

NextAnalyze == AnalyzeChanges \/ GetGitDiff

SpecAnalyze == InitAnalyze /\ [][NextAnalyze]_vars

(***************************************************************************)
(* Specification SpecCombined: parse_git_diff on what analyze_changes      *)
(* hands it, the output of `git diff` and of `git diff --cached` combined. *)
(* Each output is a sequence of file blocks, every line ending in a        *)
(* newline as git prints it.                                               *)
(***************************************************************************)
MaxBlocks == 2

\* the blocks git prints: a header, metadata lines, a hunk header, hunk lines
DiffBlocks ==
    {<<L_head_x, L_hunk, L_added>>,
     <<L_head_x, L_hunk, L_removed, L_context>>,
     <<L_head_y, L_hunk, L_context>>,
     <<L_head_x, L_rename, L_hunk, L_added>>,
     <<L_head_y, L_minus_file, L_plus_file, L_hunk, L_removed, L_added>>,
     <<L_head_m_f, L_hunk, L_added>>}

RECURSIVE Flatten(_)
Flatten(seqs) == IF seqs = <<>> THEN <<>> ELSE Head(seqs) \o Flatten(Tail(seqs))

\* the standard output of a git diff command that printed the blocks bs
GitStdout(bs) ==
    Flatten([i \in 1..Len(bs) |-> Flatten([j \in 1..Len(bs[i]) |-> bs[i][j] \o <<"\n">>])])

DiffOutputs == {GitStdout(bs) : bs \in UNION {[1..n -> DiffBlocks] : n \in 0..MaxBlocks}}

InitCombined ==
    /\ calls = <<>>
    /\ config = DefaultConfig
    /\ process = Loaded(config)
    /\ cache = [n \in CacheNames |-> Absent]
    /\ clock = 0
    /\ launched = <<>>
    /\ \E diff_content, staged_content \in DiffOutputs :
           last = [op |-> "call", fn |-> "parse_git_diff",
                   unstaged |-> diff_content, staged |-> staged_content,
                   diff_content |-> CombinedDiff(diff_content, staged_content)]

NextCombined == ParseGitDiff \/ ExtractParsed

SpecCombined == InitCombined /\ [][NextCombined]_vars

(***************************************************************************)
(* The properties.                                                         *)
(***************************************************************************)
Range(seq) == {seq[i] : i \in 1..Len(seq)}

\* the processes of `launched` that run the git subcommand sub
ProcsOf(sub) == {i \in 1..Len(launched) : launched[i].argv[2] = PyStr(sub)}

UpdateProcs == ProcsOf(S_fetch) \cup ProcsOf(S_checkout) \cup ProcsOf(S_pull)

\* the resolver's result for the argument of the last ensure_repository call
LastInfo ==
    extract_repo_info_from_path(last.workspace_root,
                                path_exists(cache, config, last.workspace_root))

\* C1: run_git_command launches a process exactly when every argument is a
\* string without any of ; & | $ ` newline carriage-return; the process then
\* gets the arguments as given, in order, after "git"; otherwise ValueError is
\* raised and nothing is launched.
C1_SanitizedOrRejected ==
    last.op = "run_git_command" =>
        IF \A i \in 1..Len(last.args) :
               /\ last.args[i].isStr
               /\ \A j \in 1..Len(last.args[i].s) :
                      last.args[i].s[j] \notin {";", "&", "|", "$", BackQuote, "\n", "\r"}
        THEN /\ last.raised # "ValueError"
             /\ Len(launched) = 1
             /\ launched[1].argv = <<PyStr(S_git)>> \o last.args
        ELSE /\ last.raised = "ValueError"
             /\ launched = <<>>

C1_Witness ==
    /\ last.op = "run_git_command"
    /\ Len(last.args) = MaxArgs
    /\ Len(launched) = 1
    /\ launched[1].argv[2] = PyStr(<<"-", "s">>)

\* C2: when the git clone of an ensure_repository call for a remote identifier
\* does not succeed (nonzero exit, timeout or any other error), the call
\* returns None without raising and no directory is left at the clone path.
C2_FailedCloneLeavesNothing ==
    (/\ last.op = "ensure"
     /\ LastInfo.found
     /\ \E i \in ProcsOf(S_clone) : launched[i].outcome # "exit0")
        => /\ last.raised = "none"
           /\ last.returned = <<>>
           /\ cache[LastInfo.name].kind # "dir"

\* C3: a second ensure_repository call with the same remote identifier, made
\* right after a successful one and with every update command succeeding,
\* returns the same path, launches no clone and removes nothing.
C3_SecondEnsureUpdates ==
    (/\ last.op = "ensure"
     /\ last.previous # <<>>
     /\ LastInfo.found
     /\ \A i \in UpdateProcs : launched[i].outcome = "exit0")
        => /\ last.returned = last.previous
           /\ last.raised = "none"
           /\ ProcsOf(S_clone) = {}
           /\ UpdateProcs = 1..Len(launched)
           /\ launched # <<>>
           /\ \A i \in 1..Len(last.effects) : last.effects[i].op = "touch"

C3_Witness ==
    /\ last.op = "ensure"
    /\ last.previous # <<>>
    /\ LastInfo.found
    /\ last.returned = last.previous
    /\ Len(launched) = 3

\* C4: when the update of a valid cache entry fails, ensure_repository removes
\* the entry and clones again into the same path; the call succeeds exactly
\* when that clone succeeds, and then the sentinel is touched and the path
\* returned.
C4_FailedUpdateReclones ==
    (/\ last.op = "ensure"
     /\ \E i \in UpdateProcs : launched[i].outcome # "exit0")
        => LET name == LastInfo.name
               path == get_clone_directory(config, name)
               clones == ProcsOf(S_clone)
           IN  /\ Len(last.effects) >= 1
               /\ last.effects[1] = Effect("rmtree", name)
               /\ clones = {} => ~sanitize_ok(PyStrs(<<LastInfo.url>>))
               /\ \A i \in clones :
                      /\ i = Len(launched)
                      /\ launched[i].argv[4] = PyStr(path)
                      /\ \A j \in UpdateProcs : j < i
               /\ last.returned # <<>>
                      <=> \E i \in clones : launched[i].outcome = "exit0"
               /\ last.returned # <<>>
                      => /\ last.returned = <<path>>
                         /\ cache[name].kind = "dir" /\ cache[name].git
                         /\ cache[name].sentinel = <<clock>>

C4_Witness ==
    /\ last.op = "ensure"
    /\ \E i \in UpdateProcs : launched[i].outcome # "exit0"
    /\ last.returned # <<>>
    /\ Len(last.effects) = 3

\* C5: ensure_repository on a path that is a local git checkout returns that
\* path, launches no process and changes nothing under the cache root.
C5_LocalCheckoutUntouched ==
    [][(/\ last'.op = "ensure"
        /\ is_git_repository(cache, config, last'.workspace_root))
          => /\ last'.returned = <<last'.workspace_root>>
             /\ last'.raised = "none"
             /\ launched' = <<>>
             /\ last'.effects = <<>>
             /\ cache' = cache]_vars

C5_Witness ==
    /\ last.op = "ensure"
    /\ last.workspace_root = Join(S_cache_dir, N_r)
    /\ last.returned = <<last.workspace_root>>

\* the checkouts of a file system
ValidEntries(fs) == {n \in CacheNames : fs[n].kind = "dir" /\ fs[n].git}

\* now - lastAccess, with lastAccess the sentinel's time when there is a
\* sentinel and the directory's time otherwise
SecondsUnused(e, now) == now - (IF e.sentinel # <<>> THEN e.sentinel[1] ELSE e.mtime)

\* C6: a sweep selects a valid entry exactly when now - lastAccess >= days * 86400,
\* the boundary included (stated for the dry runs that end normally, where
\* nothing else decides what is listed).
C6_InactiveFromBoundary ==
    (/\ last.op = "sweep"
     /\ last.dry_run
     /\ last.rootExists
     /\ ~last.aborted)
        => \A n \in ValidEntries(cache) :
               n \in Range(last.result.repositories)
                   <=> SecondsUnused(cache[n], clock) >= last.days * 86400

\* C7: a dry run reports the removal list, the removed count and the freed
\* bytes of a run on the same state that deletes, with every deletion
\* succeeding, and leaves the cache root as it was.
C7_DryRunReportsTheSame ==
    [][(last'.op = "sweep" /\ last'.dry_run)
          => LET real == cleanup_inactive_repositories(cache, config, last'.rootExists,
                             last'.listing, last'.days, FALSE, clock, last'.env)
             IN  /\ cache' = cache
                 /\ last'.result.repositories = real.repositories
                 /\ last'.result.removed = real.removed
                 /\ last'.result.freed_bytes = real.freed_bytes]_vars

C7_Witness ==
    /\ last.op = "sweep"
    /\ last.dry_run
    /\ Len(last.result.repositories) = 2
    /\ last.result.freed_bytes > 0
    /\ \A n \in CacheNames : cache[n].kind = "dir"

\* C8: a sweep deletes and lists only directories of the cache root that hold
\* a .git directory and whose last access is not within the threshold; the
\* removed count counts the listed entries, each once.
C8_OnlyInactiveCheckoutsRemoved ==
    [][last'.op = "sweep"
          => /\ \A n \in CacheNames :
                    (cache'[n] # cache[n] \/ n \in Range(last'.result.repositories))
                        => /\ n \in ValidEntries(cache)
                           /\ SecondsUnused(cache[n], clock) >= last'.days * 86400
             /\ last'.result.removed = Len(last'.result.repositories)
             /\ Cardinality(Range(last'.result.repositories))
                    = Len(last'.result.repositories)]_vars

C8_Witness ==
    /\ last.op = "sweep"
    /\ ~last.dry_run
    /\ last.result.removed = 1
    /\ last.result.scanned = 2
    /\ \E n \in CacheNames : cache[n].kind = "dir"

RECURSIVE SumBytes(_, _)
SumBytes(names, env) ==
    IF names = <<>> THEN 0
    ELSE (IF env[Head(names)].du = "size" THEN DuBytes(Head(names))
          ELSE WalkBytes(Head(names)))
         + SumBytes(Tail(names), env)

\* C9: after a sweep that deletes, an entry whose deletion failed is not
\* listed and not counted: removed is the length of the list, freed_bytes is
\* the size of the listed entries, and every listed entry is gone.
C9_FailedDeletionNotCounted ==
    (last.op = "sweep" /\ ~last.dry_run)
        => /\ \A n \in CacheNames :
                  ~last.env[n].rm => n \notin Range(last.result.repositories)
           /\ last.result.removed = Len(last.result.repositories)
           /\ last.result.freed_bytes = SumBytes(last.result.repositories, last.env)
           /\ \A n \in Range(last.result.repositories) : cache[n].kind = "absent"

C9_Witness ==
    /\ last.op = "sweep"
    /\ ~last.dry_run
    /\ last.result.removed = 1
    /\ \E n \in CacheNames : ~last.env[n].rm /\ cache[n].kind = "dir"

\* C10: a failure at one entry (its size computation or its deletion) never
\* ends the sweep: every directory is scanned, and every other inactive
\* checkout is listed and, unless the run is dry, deleted.
C10_FailureNeverEndsSweep ==
    [][(last'.op = "sweep" /\ last'.rootExists)
          => /\ last'.result.scanned
                    = Cardinality({n \in CacheNames : cache[n].kind = "dir"})
             /\ \A n \in ValidEntries(cache) :
                    (/\ is_inactive(cache[n], clock, last'.days)
                     /\ last'.env[n].du # "empty"
                     /\ last'.env[n].rm)
                        => /\ n \in Range(last'.result.repositories)
                           /\ ~last'.dry_run => cache'[n].kind = "absent"]_vars

\* the lines of the text given to the last parse_git_diff call
InputLines == Split(last.diff_content, "\n")

\* the positions of the `diff --git` header lines
HeaderLines == {i \in 1..Len(InputLines) : StartsWith(InputLines[i], S_diff_git)}

\* the file a header line names: the fourth word without its b/ prefix
HeaderFile(line) == From(Split(line, " ")[4], 2)

HeadersNameDistinctFiles ==
    \A i, j \in HeaderLines :
        i # j => HeaderFile(InputLines[i]) # HeaderFile(InputLines[j])

\* C11: parse_git_diff returns one record per `diff --git` header line when
\* the headers name distinct files, whatever lies between the headers.
C11_OneRecordPerHeader ==
    (last.op = "parse_git_diff" /\ HeadersNameDistinctFiles)
        => /\ Cardinality(DOMAIN last.result) = Cardinality(HeaderLines)
           /\ \A i \in HeaderLines : HeaderFile(InputLines[i]) \in DOMAIN last.result

\* the lines from header h up to the line before the next header
BlockLines(h) ==
    LET later == {i \in HeaderLines : i > h}
        end == IF later = {} THEN Len(InputLines)
               ELSE (CHOOSE i \in later : \A j \in later : i <= j) - 1
    IN  SubSeq(InputLines, h, end)

\* a hunk header or a hunk content line
IsHunkLine(line) ==
    \/ StartsWith(line, S_hunk)
    \/ StartsWith(line, <<"+">>)
    \/ StartsWith(line, <<"-">>)
    \/ StartsWith(line, <<" ">>)

\* the lines of a raw_diff string, each of which ends with a newline
RawLines(raw_diff) ==
    LET pieces == Split(raw_diff, "\n") IN SubSeq(pieces, 1, Len(pieces) - 1)

RECURSIVE IsSubsequence(_, _)
IsSubsequence(a, b) ==
    IF a = <<>> THEN TRUE
    ELSE IF b = <<>> THEN FALSE
    ELSE IF Head(a) = Head(b) THEN IsSubsequence(Tail(a), Tail(b))
    ELSE IsSubsequence(a, Tail(b))

\* C12: every `@@` line and every hunk content line goes to the record of the
\* nearest preceding `diff --git` header and to no other: the raw_diff of a
\* record holds only lines of its own block, and all hunk lines of that block.
C12_HunksGoToNearestHeader ==
    (last.op = "parse_git_diff" /\ HeadersNameDistinctFiles)
        => \A h \in HeaderLines :
               LET f == HeaderFile(InputLines[h])
               IN  /\ f \in DOMAIN last.result
                   /\ IsSubsequence(RawLines(last.result[f].raw_diff), BlockLines(h))
                   /\ SelectSeq(RawLines(last.result[f].raw_diff), IsHunkLine)
                          = SelectSeq(BlockLines(h), IsHunkLine)

\* the content lines that belong to the original code, and to the modified code
InOriginal(line) ==
    \/ StartsWith(line, <<" ">>)
    \/ StartsWith(line, <<"-">>) /\ ~StartsWith(line, <<"-", "-", "-">>)

InModified(line) ==
    \/ StartsWith(line, <<" ">>)
    \/ StartsWith(line, <<"+">>) /\ ~StartsWith(line, <<"+", "+", "+">>)

\* the lines of a sequence without their first character
Remainders(lines) == [i \in 1..Len(lines) |-> Tail(lines[i])]

\* C13: extract_code_from_diff returns as original the remainders, in input
\* order, of the space lines and of the - lines that do not start with ---, and
\* as modified those of the space lines and of the + lines that do not start
\* with +++ (each side joined with newlines).
C13_ExtractSplitsSides ==
    last.op = "extract_code_from_diff" =>
        LET lines == Split(last.content, "\n")
        IN  /\ last.returned[1] = JoinLines(Remainders(SelectSeq(lines, InOriginal)))
            /\ last.returned[2] = JoinLines(Remainders(SelectSeq(lines, InModified)))

C13_Witness ==
    /\ last.op = "extract_code_from_diff"
    /\ Split(last.content, "\n") = <<L_context, L_added, L_removed>>
    /\ last.returned = <<JoinLines(<<<<"a">>, <<"c">>>>), JoinLines(<<<<"a">>, <<"b">>>>)>>

\* C14: get_git_diff never raises and always returns a pair of strings; it
\* returns ("", "") when the commit range or the path is invalid, when no diff
\* could be run (the identifier was not resolved or ensured), and when a git
\* diff command exits nonzero, times out or fails in any other way.
C14_GetGitDiffNeverRaises ==
    last.op = "get_git_diff" =>
        LET diffs == ProcsOf(S_diff)
            failed ==
                \/ Truthy(last.commits) /\ ~is_valid_commit_range(last.commits[1])
                \/ Truthy(last.path) /\ ~is_valid_path(last.path[1])
                \/ diffs = {}
                \/ \E i \in diffs : launched[i].outcome # "exit0"
        IN  /\ last.raised = "none"
            /\ Len(last.returned) = 1
            /\ Len(last.returned[1]) = 2
            /\ failed => last.returned[1] = EmptyPair

\* the clone onto a plain file failed, so that ensure_repository raised
C14_Witness ==
    /\ last.op = "get_git_diff"
    /\ last.workspace_root = W_a_r
    /\ cache[N_r].kind = "file"
    /\ \E i \in ProcsOf(S_clone) : launched[i].outcome = "nonzero"
    /\ last.raised = "none"
    /\ last.returned = <<EmptyPair>>

\* C15: two concurrent ensure calls for one identifier can interleave so that
\* a call returns a path at which no checkout exists; whenever a call returns
\* such a path, another call has removed the directory under it
C15_BrokenReturnComesFromOtherCall ==
    \A p \in DOMAIN calls :
        (calls[p].pc = "done" /\ calls[p].returned # <<>> /\ ~calls[p].intact)
            => \E q \in DOMAIN calls \ {p} :
                   Effect("rmtree", RaceName) \in Range(calls[q].effects)

\* a call returned the clone path although no checkout was there
C15_Witness ==
    \E p \in DOMAIN calls :
        /\ calls[p].pc = "done"
        /\ calls[p].returned = <<RacePath(config)>>
        /\ ~calls[p].intact

\* C16: is_valid_branch_name(s) is true exactly when s is non-empty, every
\* character of s is one of A-Z a-z 0-9 / _ . -, s contains no '..' and s
\* does not start with '.' or '-'
C16_BranchNameExactlySafe ==
    last.op = "is_valid_branch_name" =>
        (last.result <=>
            /\ last.arg # <<>>
            /\ \A i \in 1..Len(last.arg) :
                   last.arg[i] \in Letters \cup Digits \cup {"/", "_", ".", "-"}
            /\ \A i \in 1..(Len(last.arg) - 1) :
                   ~(last.arg[i] = "." /\ last.arg[i + 1] = ".")
            /\ last.arg[1] \notin {".", "-"})

RefChars == Letters \cup Digits \cup {"~", "^", ".", "/", "_", "-"}

IsRef(s) == s # <<>> /\ \A i \in 1..Len(s) : s[i] \in RefChars

\* s is <ref>..<ref> with both refs non-empty
IsRefRange(s) ==
    \E k \in 1..(Len(s) - 3) :
        /\ IsRef(SubSeq(s, 1, k))
        /\ s[k + 1] = "." /\ s[k + 2] = "."
        /\ IsRef(SubSeq(s, k + 3, Len(s)))

NoShellMetaChar(s) ==
    \A i \in 1..Len(s) : s[i] \notin {";", "&", "|", "$", BackQuote, "\n", "\r"}

\* C17: is_valid_commit_range(s) is true exactly when s is <ref>..<ref> with
\* both refs non-empty and made of A-Z a-z 0-9 ~ ^ . / _ -, s does not start
\* with '-' and s contains none of ; & | $ ` newline carriage-return
C17_CommitRangeExactlyRefRange ==
    last.op = "is_valid_commit_range" =>
        (last.result <=>
            /\ IsRefRange(last.arg)
            /\ last.arg[1] # "-"
            /\ NoShellMetaChar(last.arg))

\* a range between two refs is accepted
C17_Witness ==
    /\ last.op = "is_valid_commit_range"
    /\ last.arg = <<"a", ".", ".", "a">>
    /\ last.result

\* C18: is_valid_path(s) is false for the empty string, for s containing '..'
\* once every backslash is replaced by '/', for s starting with '-' and for s
\* containing one of ; & | $ ` newline carriage-return; it is true otherwise
C18_PathExactlySafe ==
    last.op = "is_valid_path" =>
        (~last.result <=>
            \/ last.arg = <<>>
            \/ \E i \in 1..(Len(last.arg) - 1) :
                   LET slashed == [j \in 1..Len(last.arg) |->
                                     IF last.arg[j] = "\\" THEN "/" ELSE last.arg[j]]
                   IN  slashed[i] = "." /\ slashed[i + 1] = "."
            \/ last.arg[1] = "-"
            \/ ~NoShellMetaChar(last.arg))

\* a path with a backslash and an inner '-' is accepted
C18_Witness ==
    /\ last.op = "is_valid_path"
    /\ last.arg = <<"a", "\\", "-", ".">>
    /\ last.result

\* the identifier resolved last, its '/'-separated segments, and the owner
\* and repository of an identifier of two or three segments
Resolved == last.workspace_root
Segments == Split(Resolved, "/")
OwnerSegment == Segments[Len(Segments) - 1]
RepoSegment == Segments[Len(Segments)]

\* "git@github.com:" + owner + "/" + repo + ".git"
ExpectedUrl ==
    <<"g", "i", "t", "@", "g", "i", "t", "h", "u", "b", ".", "c", "o", "m", ":">> \o OwnerSegment \o <<"/">> \o RepoSegment
        \o <<".", "g", "i", "t">>

\* the identifier is owner/repo or github.com/owner/repo, holds no '@' and
\* names no existing local path
IsShortForm ==
    /\ last.op = "extract_repo_info_from_path"
    /\ ~last.exists
    /\ \A i \in 1..Len(Resolved) : Resolved[i] # "@"
    /\ \/ Len(Segments) = 2 /\ (OwnerSegment = <<>> \/ OwnerSegment[1] # ".")
       \/ Len(Segments) = 3 /\ Segments[1] = <<"g", "i", "t", "h", "u", "b", ".", "c", "o", "m">>

\* C19 as stated: every identifier owner/repo or github.com/owner/repo
\* resolves to url git@github.com:owner/repo.git, name repo and no branch
C19_ShortFormNameIsRepo ==
    IsShortForm =>
        last.info = [found |-> TRUE, url |-> ExpectedUrl, name |-> RepoSegment,
                     branch |-> <<>>]

\* repo without one trailing ".git", then what follows its last ':'
NameWithoutSuffix ==
    LET n == Len(RepoSegment)
        base == IF n >= 4 /\ SubSeq(RepoSegment, n - 3, n) = <<".", "g", "i", "t">>
                THEN SubSeq(RepoSegment, 1, n - 4) ELSE RepoSegment
        colons == {i \in 1..Len(base) : base[i] = ":"}
        after == IF colons = {} THEN 0
                 ELSE CHOOSE i \in colons : \A j \in colons : j <= i
    IN  SubSeq(base, after + 1, Len(base))

\* C19, amended: every identifier owner/repo with a non-empty owner, or
\* github.com/owner/repo, without surrounding whitespace, resolves to url
\* git@github.com:owner/repo.git, the name left of repo once a trailing
\* ".git" and everything up to its last ':' are removed, and no branch
C19_ShortFormNameIsStrippedRepo ==
    (/\ IsShortForm
     /\ Resolved[1] \notin {"/"} \cup WhiteSpace
     /\ Resolved[Len(Resolved)] \notin WhiteSpace) =>
        last.info = [found |-> TRUE, url |-> ExpectedUrl, name |-> NameWithoutSuffix,
                     branch |-> <<>>]

\* owner/repo.git was resolved: the name is repo without ".git"
C19_Witness ==
    /\ IsShortForm
    /\ Resolved = <<"a", "/", "r", ".", "g", "i", "t">>
    /\ last.info.name = <<"r">>
    /\ last.info.url = <<"g", "i", "t", "@", "g", "i", "t", "h", "u", "b", ".", "c", "o", "m", ":", "a", "/", "r", ".", "g", "i", "t", ".", "g", "i", "t">>

\* identifiers in the four remote forms, without a branch
RemoteForms ==
    {<<"g", "i", "t", "@", "h", ":", "a", "/", "r", ".", "g", "i", "t">>,
     <<"h", "t", "t", "p", "s", ":", "/", "/", "h", "/", "a", "/", "r", ".", "g", "i", "t">>,
     <<"h", "t", "t", "p", ":", "/", "/", "h", "/", "a", "/", "r", ".", "g", "i", "t">>,
     <<"g", "i", "t", "h", "u", "b", ".", "c", "o", "m", "/", "a", "/", "r">>,
     <<"a", "/", "r">>}

\* C20: for an identifier X in a remote form and a branch B accepted by
\* is_valid_branch_name, resolving X + "@" + B yields the url and the name
\* that resolving X yields, with branch = B
C20_BranchSuffixKeepsUrlAndName ==
    \A X \in RemoteForms, B \in BranchNames :
        (/\ last.op = "extract_repo_info_from_path"
         /\ ~last.exists
         /\ last.workspace_root = X \o <<"@">> \o B
         /\ is_valid_branch_name(B)) =>
            LET alone == extract_repo_info_from_path(X, FALSE)
            IN  /\ last.info.found /\ alone.found
                /\ last.info.url = alone.url
                /\ last.info.name = alone.name
                /\ last.info.branch = B

\* the identifier resolved last, stripped, and what follows its branch
\* delimiter: the first '@' after a leading "git@", else the last '@'
StrippedResolved == Strip(Resolved)

HasBranchDelimiter ==
    IF StartsWith(StrippedResolved, <<"g", "i", "t", "@">>)
    THEN \E i \in 5..Len(StrippedResolved) : StrippedResolved[i] = "@"
    ELSE \E i \in 1..Len(StrippedResolved) : StrippedResolved[i] = "@"

BranchCandidate ==
    LET ats == {i \in 1..Len(StrippedResolved) : StrippedResolved[i] = "@"}
        at == IF StartsWith(StrippedResolved, <<"g", "i", "t", "@">>)
              THEN CHOOSE i \in ats : i > 4 /\ \A j \in ats : j > 4 => i <= j
              ELSE CHOOSE i \in ats : \A j \in ats : j <= i
    IN  SubSeq(StrippedResolved, at + 1, Len(StrippedResolved))

\* the url of the whole stripped identifier read as a repository reference
WholeAsReference ==
    LET segs == Split(StrippedResolved, "/")
        short(o, r) == <<"g", "i", "t", "@", "g", "i", "t", "h", "u", "b", ".", "c", "o", "m", ":">> \o o \o <<"/">> \o r \o <<".", "g", "i", "t">>
    IN  IF \/ StartsWith(StrippedResolved, <<"g", "i", "t", "@">>)
           \/ StartsWith(StrippedResolved, <<"h", "t", "t", "p", ":", "/", "/">>)
           \/ StartsWith(StrippedResolved, <<"h", "t", "t", "p", "s", ":", "/", "/">>)
        THEN StrippedResolved
        ELSE IF Len(segs) >= 3 /\ segs[1] = <<"g", "i", "t", "h", "u", "b", ".", "c", "o", "m">>
        THEN short(segs[2], segs[3])
        ELSE short(segs[1], segs[2])

\* C21: when what follows the branch delimiter fails is_valid_branch_name the
\* resolver returns no branch and reads the whole string, '@' and rejected
\* substring included, as the repository reference; a branch it returns
\* always satisfies is_valid_branch_name
C21_RejectedBranchStaysInReference ==
    last.op = "extract_repo_info_from_path" =>
        /\ last.info.branch # <<>> => is_valid_branch_name(last.info.branch)
        /\ (/\ ~last.exists
            /\ HasBranchDelimiter
            /\ ~is_valid_branch_name(BranchCandidate)) =>
               /\ last.info.branch = <<>>
               /\ last.info.found => last.info.url = WholeAsReference

\* a/r@-x was resolved: no branch, and "@-x" is part of the url
C21_Witness ==
    /\ last.op = "extract_repo_info_from_path"
    /\ Resolved = <<"a", "/", "r", "@", "-", "x">>
    /\ last.info.found
    /\ last.info.branch = <<>>
    /\ last.info.url = <<"g", "i", "t", "@", "g", "i", "t", "h", "u", "b", ".", "c", "o", "m", ":", "a", "/", "r", "@", "-", "x", ".", "g", "i", "t">>

\* C22: a nonzero exit with check raises GitCommandError carrying the command,
\* stderr and the exit code; without check it returns the completed result;
\* expiry of the timeout raises GitTimeoutError carrying the command and the
\* timeout value; a zero exit returns the result; at most one process is
\* launched
C22_OutcomesMapToTypedResults ==
    (last.op = "run_git_command" /\ launched # <<>>) =>
        LET proc == launched[1]
            completed == [args |-> proc.argv,
                          stderr |-> IF proc.outcome = "exit0" THEN <<>>
                                     ELSE <<"e", "r", "r">>,
                          returncode |-> IF proc.outcome = "exit0" THEN 0 ELSE 1]
        IN  /\ Len(launched) = 1
            /\ (proc.outcome = "nonzero" /\ last.check) =>
                   /\ last.raised = "GitCommandError"
                   /\ last.carried = [command |-> proc.argv, stderr |-> <<"e", "r", "r">>,
                                      returncode |-> 1]
            /\ (proc.outcome = "nonzero" /\ ~last.check) =>
                   last.raised = "none" /\ last.carried = completed
            /\ proc.outcome = "timeout" =>
                   /\ last.raised = "GitTimeoutError"
                   /\ last.carried =
                          [command |-> proc.argv,
                           timeout |-> IF last.timeout = <<>> THEN config.fetch_timeout
                                       ELSE last.timeout[1]]
            /\ proc.outcome = "exit0" =>
                   last.raised = "none" /\ last.carried = completed

\* a command run without check ended with a nonzero exit and was returned
C22_Witness ==
    /\ last.op = "run_git_command"
    /\ ~last.check
    /\ Len(launched) = 1
    /\ launched[1].outcome = "nonzero"
    /\ last.raised = "none"
    /\ last.carried.returncode = 1

\* the value LUCIDITY_SSH_VERIFY has, lower-cased, is one of true, 1, yes
VerificationRequested ==
    /\ process.environ.LUCIDITY_SSH_VERIFY # <<>>
    /\ LET v == process.environ.LUCIDITY_SSH_VERIFY[1]
       IN  \/ v \in {<<"1">>, <<"y", "e", "s">>, <<"t", "r", "u", "e">>}
           \/ v = <<"T", "r", "u", "e">>

\* the call of run_git_command that read the configuration from the
\* environment, which has not changed since
FirstGitCommand ==
    /\ last.op = "run_git_command"
    /\ last.created
    /\ launched # <<>>

\* C23 as stated: with LUCIDITY_SSH_VERIFY not set, git is launched without
\* the StrictHostKeyChecking=no override
C23_NoOverrideByDefault ==
    (FirstGitCommand /\ process.environ.LUCIDITY_SSH_VERIFY = <<>>) =>
        launched[1].ssh # SSH_NO_HOST_KEY_CHECK

\* C23, amended: with LUCIDITY_SSH_VERIFY not set when the configuration is
\* read, git is launched with the StrictHostKeyChecking=no override; the
\* override is left out only when the variable is true, 1 or yes
C23_OverrideUnlessVerificationRequested ==
    FirstGitCommand =>
        (launched[1].ssh = SSH_NO_HOST_KEY_CHECK <=> ~VerificationRequested)

\* git ran under the default configuration, with the override
C23_Witness ==
    /\ FirstGitCommand
    /\ process.environ.LUCIDITY_SSH_VERIFY = <<>>
    /\ launched[1].ssh = SSH_NO_HOST_KEY_CHECK

\* C25: get_cache_directory() returns the value LUCIDITY_CACHE_DIR has at the
\* time of the call, or the default when it is not set
C25_CacheDirectoryFollowsEnvironment ==
    last.op = "get_cache_directory" =>
        last.returned = IF process.environ.LUCIDITY_CACHE_DIR = <<>>
                        THEN S_cache_dir
                        ELSE process.environ.LUCIDITY_CACHE_DIR[1]

\* the pending request carries a commit range or a path that fails validation
InvalidRequest ==
    /\ last.op = "call"
    /\ \/ Truthy(last.commits) /\ ~is_valid_commit_range(last.commits[1])
       \/ Truthy(last.path) /\ ~is_valid_path(last.path[1])

\* C24: serving an analyze_changes or get_git_diff request whose commits fail
\* is_valid_commit_range or whose path fails is_valid_path launches no git
\* process and leaves the cache as it was
C24_InvalidRequestAttemptsNothing ==
    [][InvalidRequest => launched' = <<>> /\ cache' = cache]_vars

\* C26: when the repository cannot be accessed analyze_changes returns status
\* "error", with the local-path guidance exactly when the identifier starts
\* with '/', './' or '../' and the plain could-not-access message otherwise
C26_AccessFailureIsReported ==
    (/\ last.op = "analyze_changes"
     /\ last.workspace_root # <<>>
     /\ last.raised # "none" \/ last.status = "error") =>
        /\ last.raised = "none"
        /\ last.status = "error"
        /\ last.message =
               IF LET w == last.workspace_root
                  IN  \/ w[1] = "/"
                      \/ Len(w) >= 2 /\ w[1] = "." /\ w[2] = "/"
                      \/ Len(w) >= 3 /\ w[1] = "." /\ w[2] = "." /\ w[3] = "/"
               THEN "local_path_guidance"
               ELSE "could_not_access"


\* C27: the cache name derived for an identifier that resolves as remote is a
\* non-empty single path component other than "." and ".." (it holds no "/"),
\* so that the clone path, and what the cleanup of a failed clone removes, is
\* an immediate child of the cache root
C27_CacheNameIsOneComponent ==
    (last.op = "extract_repo_info_from_path" /\ last.info.found) =>
        /\ last.info.name # <<>>
        /\ last.info.name # <<".">>
        /\ last.info.name # <<".", ".">>
        /\ \A i \in DOMAIN last.info.name : last.info.name[i] # "/"

\* C28: a successful ensure_repository for a remote identifier returns a
\* checkout that was cloned from the URL the identifier resolves to, also when
\* another repository with the same final path segment was cached before
C28_ReturnedCheckoutHasResolvedOrigin ==
    (/\ last.op = "ensure"
     /\ last.returned # <<>>
     /\ LastInfo.found)
        => /\ last.returned = <<get_clone_directory(config, LastInfo.name)>>
           /\ cache[LastInfo.name].git
           /\ cache[LastInfo.name].origin = LastInfo.url

\* the ensure calls that are updating the entry, or that returned its path
\* to a caller whose diff command has not run yet
UsingEntry ==
    {p \in RaceCalls :
        \/ calls[p].pc \in {"fetch", "pull", "touch"}
        \/ calls[p].pc = "done" /\ calls[p].returned # <<>>}

\* C29: a sweep concurrent with ensure_repository never deletes an entry that
\* an in-flight ensure is updating or has returned to a caller whose diff
\* command has not run yet; the path a successful ensure returned is a valid
\* checkout when the diff command following it executes
C29_SweepSparesEntriesInUse ==
    /\ (last.op = "sweep" /\ last.removed) => UsingEntry = {}
    /\ last.op = "diff" => last.valid

\* the entries whose latest successful ensure is less than days * 86400
\* seconds before now
RecentlyEnsured(days, now) ==
    {n \in CacheNames :
        calls[n] # <<>> /\ now - calls[n][1] < days * SECONDS_PER_DAY}

\* C30: in a sequential history a successful ensure_repository of a remote
\* identifier sets the time of the entry's .last_accessed to the time of the
\* call, and a sweep with days >= 1 neither removes nor reports an entry
\* whose latest successful ensure is less than days * 86400 seconds old
C30_RecentlyEnsuredSurvivesSweep ==
    /\ (last.op = "ensure" /\ last.returned # <<>> /\ LastInfo.found)
           => cache[LastInfo.name].sentinel = <<clock>>
    /\ (last.op = "sweep" /\ last.days >= 1)
           => \A n \in RecentlyEnsured(last.days, clock) :
                  /\ n \notin Range(last.result.repositories)
                  /\ cache[n].kind = "dir" => cache[n].sentinel = calls[n]

\* a real sweep ran a day and a second after time 0 and kept an entry that
\* was at the cache root from time 0 on and was ensured in between
C30_Witness ==
    /\ last.op = "sweep"
    /\ last.days = 1
    /\ ~last.dry_run
    /\ clock = SECONDS_PER_DAY + 1
    /\ calls[N_r] = <<SECONDS_PER_DAY>>
    /\ cache[N_r].git
    /\ cache[N_r].mtime = 0
    /\ last.result.scanned >= 1

\* the argument lists of the commands of a whole update, in order
UpdateCommands(branch) ==
    IF branch = <<>> THEN <<<<S_fetch, S_all>>, <<S_pull>>>>
    ELSE <<<<S_fetch, S_all>>, <<S_checkout, branch>>, <<S_pull>>>>

\* C31: update_repository runs fetch --all, then checkout <branch> exactly
\* when a branch was given, then pull; a step is launched only if every
\* earlier step succeeded; when a step fails or times out no later step runs,
\* the sentinel is not touched and the update returns False, so that the
\* caller removes the entry
C31_UpdateStepsInOrder ==
    (last.op = "ensure" /\ UpdateProcs # {}) =>
        LET n == Cardinality(UpdateProcs)
            expected == UpdateCommands(LastInfo.branch)
        IN  /\ UpdateProcs = 1..n
            /\ n <= Len(expected)
            /\ \A i \in 1..n :
                   /\ launched[i].argv = <<PyStr(S_git)>> \o PyStrs(expected[i])
                   /\ i < n => launched[i].outcome = "exit0"
            /\ launched[n].outcome = "exit0"
                   => /\ n = Len(expected)
                      /\ last.effects = <<Effect("touch", LastInfo.name)>>
                      /\ cache[LastInfo.name].sentinel = <<clock>>
                      /\ last.returned # <<>>
            /\ launched[n].outcome # "exit0"
                   => last.effects[1] = Effect("rmtree", LastInfo.name)

\* an update with a branch stopped at its failed checkout: no pull ran
C31_Witness ==
    /\ last.op = "ensure"
    /\ LastInfo.branch # <<>>
    /\ Cardinality(UpdateProcs) = 2
    /\ launched[2].argv[2] = PyStr(S_checkout)
    /\ launched[2].outcome = "timeout"
    /\ ProcsOf(S_pull) = {}

\* C32: every git command of the cache manager runs with its timeout class:
\* clone with the configured clone timeout, and fetch, checkout and pull with
\* the configured fetch timeout
C32_TimeoutClasses ==
    last.op = "ensure" =>
        \A i \in 1..Len(launched) :
            launched[i].timeout = IF i \in ProcsOf(S_clone)
                                  THEN config.clone_timeout
                                  ELSE config.fetch_timeout

\* the options that the code itself writes into its commands
FixedOptions == {S_all, S_branch, S_cached}

StartsWithDash(arg) == arg.s # <<>> /\ arg.s[1] = "-"

\* the arguments of a launched command that follow "git" and the subcommand
ArgsOf(proc) == 3..Len(proc.argv)

\* C33: no argument handed to git by the cache manager or by get_git_diff
\* can be read as an option taken from caller input: a clone URL starts with
\* git@, http:// or https://, a clone path starts with the cache root, every
\* branch, commit range and path argument passed its validator, and only the
\* options the code writes itself start with '-'
C33_NoOptionFromCallerInput ==
    last.op = "get_git_diff" =>
        \A i \in 1..Len(launched) :
            LET argv == launched[i].argv
            IN  /\ \A j \in ArgsOf(launched[i]) :
                       /\ argv[j].isStr
                       /\ StartsWithDash(argv[j]) => argv[j].s \in FixedOptions
                /\ i \in ProcsOf(S_clone) =>
                       /\ \/ StartsWith(argv[3].s, S_git_at)
                          \/ StartsWith(argv[3].s, S_http)
                          \/ StartsWith(argv[3].s, S_https)
                       /\ StartsWith(argv[4].s, config.cache_dir \o <<"/">>)
                       /\ Len(argv) > 4 =>
                              /\ argv[5].s = S_branch
                              /\ is_valid_branch_name(argv[6].s)
                /\ i \in ProcsOf(S_checkout) => is_valid_branch_name(argv[3].s)
                /\ i \in ProcsOf(S_diff) =>
                       /\ Truthy(last.commits) =>
                              /\ argv[3].s = last.commits[1]
                              /\ is_valid_commit_range(argv[3].s)
                       /\ Truthy(last.path) =>
                              /\ argv[Len(argv)].s = NormalizedPath(last.path)[1]
                              /\ is_valid_path(last.path[1])

\* "-a/r" was cloned and diffed with a path: the clone URL begins with git@
C33_Witness ==
    /\ last.op = "get_git_diff"
    /\ last.workspace_root = W_dash_a_r
    /\ last.path = <<<<"a", "\\", "f">>>>
    /\ Len(launched) = 3
    /\ launched[1].argv[2] = PyStr(S_clone)
    /\ launched[1].argv[3] = PyStr(GithubSshUrl(<<"-", "a">>, N_r))
    /\ launched[2].argv = PyStrs(<<S_git, S_diff, <<"a", "/", "f">>>>)

\* the hunk content lines of the block of header h: the lines after its first
\* `@@` line that begin with '+', '-' or a space
HunkContent(h) ==
    LET block == BlockLines(h)
        hunks == {i \in 1..Len(block) : StartsWith(block[i], S_hunk)}
        first == CHOOSE i \in hunks : \A j \in hunks : i <= j
        content(line) == \/ StartsWith(line, <<"+">>)
                         \/ StartsWith(line, <<"-">>)
                         \/ StartsWith(line, <<" ">>)
    IN  IF hunks = {} THEN <<>>
        ELSE SelectSeq(SubSeq(block, first + 1, Len(block)), content)

\* C34: when a diff text holds two `diff --git` blocks for one file, the
\* record of that file holds the hunk content lines and the raw diff of both
\* blocks: no hunk line of the input is dropped
C34_BothBlocksOfAFileKept ==
    (last.op = "parse_git_diff" /\ ~HeadersNameDistinctFiles)
        => \A h \in HeaderLines :
               LET f == HeaderFile(InputLines[h])
               IN  /\ f \in DOMAIN last.result
                   /\ IsSubsequence(HunkContent(h), Split(last.result[f].content, "\n"))
                   /\ IsSubsequence(SelectSeq(BlockLines(h), IsHunkLine),
                                    RawLines(last.result[f].raw_diff))

\* the header lines of the block of header h: its `diff --git` line, its
\* metadata lines (those before its first `@@` line) and its `@@` lines
HeaderOf(h) ==
    LET block == BlockLines(h)
        hunks == {i \in 1..Len(block) : StartsWith(block[i], S_hunk)}
        first == IF hunks = {} THEN Len(block) + 1
                 ELSE CHOOSE i \in hunks : \A j \in hunks : i <= j
    IN  SubSeq(block, 1, first - 1)
            \o SelectSeq(SubSeq(block, first, Len(block)), LAMBDA l : StartsWith(l, S_hunk))

\* C35: every record is finalized the same way, whether the next `diff --git`
\* line or the end of input closes it and whether or not it has hunk content
\* lines: its header is the newline-join of its `diff --git` line, metadata
\* lines and `@@` lines, its content the newline-join of its hunk content lines
C35_RecordsFinalizedAlike ==
    (last.op = "parse_git_diff" /\ HeadersNameDistinctFiles)
        => \A h \in HeaderLines :
               LET f == HeaderFile(InputLines[h])
               IN  f \in DOMAIN last.result
                       => /\ last.result[f].header = JoinLines(HeaderOf(h))
                          /\ last.result[f].content = JoinLines(HunkContent(h))

\* the metadata lines of the block of header h: the lines between its
\* `diff --git` line and its first `@@` line or the next `diff --git` line
OwnMetadata(h) ==
    LET block == BlockLines(h)
        hunks == {i \in 1..Len(block) : StartsWith(block[i], S_hunk)}
        first == IF hunks = {} THEN Len(block) + 1
                 ELSE CHOOSE i \in hunks : \A j \in hunks : i <= j
    IN  SubSeq(block, 2, first - 1)

SomeLineBegins(lines, prefix) ==
    \E i \in 1..Len(lines) : StartsWith(lines[i], prefix)

\* C36: the status of a record is modified, added, deleted or renamed and is
\* determined by the metadata lines of its own block only: added, deleted or
\* renamed needs a line of that block beginning with `new file`, `deleted
\* file` or `rename from`, and modified means the block has no such line
C36_StatusFromOwnMetadata ==
    (last.op = "parse_git_diff" /\ HeadersNameDistinctFiles)
        => \A h \in HeaderLines :
               LET f == HeaderFile(InputLines[h])
                   own == OwnMetadata(h)
               IN  f \in DOMAIN last.result
                       => LET status == last.result[f].status
                          IN  /\ status \in {"modified", "added", "deleted", "renamed"}
                              /\ status = "added" => SomeLineBegins(own, S_new_file)
                              /\ status = "deleted" => SomeLineBegins(own, S_deleted_file)
                              /\ status = "renamed" => SomeLineBegins(own, S_rename_from)
                              /\ status = "modified"
                                     => /\ ~SomeLineBegins(own, S_new_file)
                                        /\ ~SomeLineBegins(own, S_deleted_file)
                                        /\ ~SomeLineBegins(own, S_rename_from)

\* the path p of a header line `diff --git a/p b/p`
PostImagePath(line) ==
    LET n == (Len(line) - Len(S_diff_git) - 5) \div 2
    IN  SubSeq(line, Len(line) - n + 1, Len(line))

HasHeaderForm(line) ==
    LET p == PostImagePath(line)
    IN  line = S_diff_git \o <<"a", "/">> \o p \o <<" ", "b", "/">> \o p

\* C37: the key of a record is the post-image path of its `diff --git` line,
\* the path after b/, for every line `diff --git a/<path> b/<path>`, also
\* when the path holds a space
C37_KeyIsPostImagePath ==
    last.op = "parse_git_diff" =>
        /\ \A h \in HeaderLines : HasHeaderForm(InputLines[h])
        /\ DOMAIN last.result = {PostImagePath(InputLines[h]) : h \in HeaderLines}


\* the identifier is an http(s) URL whose only '@' is in the userinfo part,
\* before the first '/' that follows the scheme
OnlyAtInUserinfo ==
    LET scheme == IF StartsWith(StrippedResolved, S_https) THEN S_https ELSE S_http
        rest == From(StrippedResolved, Len(scheme))
        ats == {i \in 1..Len(rest) : rest[i] = "@"}
    IN  /\ StartsWith(StrippedResolved, S_http) \/ StartsWith(StrippedResolved, S_https)
        /\ Cardinality(ats) = 1
        /\ \A i \in ats : \A j \in 1..i : rest[j] # "/"

\* C38: for an http(s) identifier whose only '@' lies in the userinfo part of
\* the URL no branch is resolved and the URL is the clone URL as given
C38_UserinfoAtIsNoBranchDelimiter ==
    (/\ last.op = "extract_repo_info_from_path"
     /\ ~last.exists
     /\ OnlyAtInUserinfo)
        => /\ last.info.found
           /\ last.info.branch = <<>>
           /\ last.info.url = StrippedResolved

\* the process environment with env_overrides laid over it
EnvironmentWithOverrides ==
    LET environ == process.environ
        over == IF last.env_overrides = <<>> THEN EmptyDict ELSE last.env_overrides[1]
    IN  [k \in DOMAIN environ \cup DOMAIN over |->
            IF k \in DOMAIN over THEN over[k] ELSE environ[k]]

\* C39: run_git_command sets GIT_SSH_COMMAND to the no-host-key-check command
\* in the child environment exactly when ssh_verify is false, whatever
\* env_overrides holds for it; with ssh_verify true the child environment is
\* the process environment plus env_overrides and nothing else
C39_SshOverrideFollowsSshVerify ==
    last.op = "run_git_command" =>
        LET base == EnvironmentWithOverrides
        IN  IF config.ssh_verify
            THEN last.env = base
            ELSE /\ DOMAIN last.env = DOMAIN base \cup {"GIT_SSH_COMMAND"}
                 /\ last.env["GIT_SSH_COMMAND"] = SSH_NO_HOST_KEY_CHECK
                 /\ \A k \in DOMAIN base \ {"GIT_SSH_COMMAND"} : last.env[k] = base[k]

\* with ssh_verify off, a GIT_SSH_COMMAND given in env_overrides was replaced
\* while the HOME given there reached the child
C39_Witness ==
    /\ last.op = "run_git_command"
    /\ ~config.ssh_verify
    /\ last.env_overrides = <<[GIT_SSH_COMMAND |-> "x", HOME |-> "y"]>>
    /\ process.environ = [GIT_SSH_COMMAND |-> "y", HOME |-> "x"]
    /\ last.env = [GIT_SSH_COMMAND |-> SSH_NO_HOST_KEY_CHECK, HOME |-> "y"]
    /\ launched[1].ssh = SSH_NO_HOST_KEY_CHECK

\* C40: ensure_repository on a path that exists and is no git checkout
\* returns None, launches no process and changes nothing under the cache
\* root, also when the path reads as a remote shorthand such as owner/repo
C40_ExistingNonCheckoutFails ==
    [][(/\ last'.op = "ensure"
        /\ path_exists(cache, config, last'.workspace_root)
        /\ ~is_git_repository(cache, config, last'.workspace_root))
          => /\ last'.returned = <<>>
             /\ last'.raised = "none"
             /\ launched' = <<>>
             /\ last'.effects = <<>>
             /\ cache' = cache]_vars

\* the directory o/q exists and holds no .git; the call failed while the
\* cache root has no entry q, which a clone of o/q would have made
C40_Witness ==
    /\ last.op = "ensure"
    /\ last.workspace_root = P_o_q
    /\ path_exists(cache, config, P_o_q)
    /\ ~is_git_repository(cache, config, P_o_q)
    /\ last.returned = <<>>
    /\ launched = <<>>
    /\ cache[N_q] = Absent
====
